---- MODULE Spec2Model ----
(***************************************************************************)
(* The concurrency spine of the Mojom language server: the reader (main)   *)
(* thread with the initialization handshake and the dispatch loop, the     *)
(* message sender (writer) thread and the diagnostics (analysis) thread.   *)
(***************************************************************************)
EXTENDS Integers, Sequences, FiniteSets, TLC

(* ---------------------------------------------------------------------- *)
(* Bounds of the model                                                     *)
(* ---------------------------------------------------------------------- *)

\* Number of frames the client offers after the handshake.
MaxReads == 2
\* Statements of a file and members of an interface or a struct handed to
\* the traversal; statements of a file handed to the semantic analysis.
MaxStmts == 2
MaxMembers == 1
MaxSemanticStmts == 3

\* Lines of a header block handed to read_header; the largest length a
\* header declares; frames written to one stream.
MaxHeaderLines == 2
MaxContentLength == 12
MaxFrames == 2

\* Components of the path the client names as the root of the workspace.
MaxDepth == 3
\* Parameters of a method and of its response.
MaxParams == 2
\* Statements of a document whose imports are resolved.
MaxImportStmts == 3

(* ---------------------------------------------------------------------- *)
(* Values                                                                  *)
(* ---------------------------------------------------------------------- *)

NoId == 0
Ids == {1, 2}

NoMethod == ""
RequestMethods ==
    {"initialize", "shutdown", "textDocument/definition", "exit", "textDocument/hover"}
NotificationMethods ==
    {"initialized", "exit", "textDocument/didOpen", "textDocument/didChange",
     "workspace/didChangeConfiguration", "textDocument/willSave",
     "textDocument/didSave"}
IgnoredNotifications ==
    {"workspace/didChangeConfiguration", "textDocument/willSave", "textDocument/didSave"}

\* protocol.rs ErrorCodes
InvalidRequest == -32600
InternalError == -32603
ServerNotInitialized == -32002

(* ---------------------------------------------------------------------- *)
(* Inbound frames                                                          *)
(* ---------------------------------------------------------------------- *)

Params(tag, uri, pos, text, changes) ==
    [tag |-> tag, uri |-> uri, pos |-> pos, text |-> text, changes |-> changes]
PlainParams(tag) == Params(tag, "", 0, <<>>, <<>>)
PositionParams(uri, pos) == Params("position", uri, pos, <<>>, <<>>)
DidOpenParams(uri, text) == Params("didOpen", uri, 0, text, <<>>)
DidChangeParams(uri, changes) == Params("didChange", uri, 0, <<>>, changes)

\* The outcome of reading one frame off the input: a transport failure, or
\* a JSON object described by the fields it carries.
Frame(io, id, method, params, result, error) ==
    [io |-> io, id |-> id, method |-> method, params |-> params,
     result |-> result, error |-> error]

TransportFailures == {"invalid_header", "no_content_length", "eof_in_header",
                      "eof_in_body", "invalid_json"}

FailureFrames ==
    {Frame(f, NoId, NoMethod, PlainParams("absent"), FALSE, FALSE) : f \in TransportFailures}

\* The documents and positions the client names in its messages.  A text is
\* a sequence of items: "S" is an identifier that declares a name, "I" an
\* import statement, "X" an item the grammar rejects.
UriA == "file:///a.mojom"
UriB == "file:///b.mojom"
UriC == "file:///c.mojom"
OpenedDocuments == {<<UriA, <<"S">>>>, <<UriB, <<"S", "X">>>>}
ChangedDocuments == {<<UriA, <<>>>>, <<UriA, <<<<"X">>>>>>, <<UriB, <<<<"I">>, <<"S">>>>>>}
CursorPositions == {<<2, UriA, 0>>, <<1, UriB, 0>>, <<1, UriA, 3>>, <<1, UriC, 0>>}

RequestFrames ==
    {Frame("ok", i, "shutdown", PlainParams("null"), FALSE, FALSE) : i \in Ids}
    \cup {Frame("ok", 1, m, PlainParams("null"), FALSE, FALSE) :
            m \in {"exit", "textDocument/hover"}}
    \cup {Frame("ok", 2, "textDocument/definition", PlainParams("null"), FALSE, FALSE)}
    \cup {Frame("ok", i, "initialize", PlainParams("initialize"), FALSE, FALSE) : i \in Ids}
    \cup {Frame("ok", 1, "initialize", PlainParams("null"), FALSE, FALSE)}
    \cup {Frame("ok", c[1], "textDocument/definition", PositionParams(c[2], c[3]), FALSE, FALSE) :
            c \in CursorPositions}

NotificationFrames ==
    {Frame("ok", NoId, m, PlainParams("null"), FALSE, FALSE) : m \in NotificationMethods}
    \cup {Frame("ok", NoId, "textDocument/didOpen", DidOpenParams(d[1], d[2]), FALSE, FALSE) :
            d \in OpenedDocuments}
    \cup {Frame("ok", NoId, "textDocument/didChange", DidChangeParams(d[1], d[2]), FALSE, FALSE) :
            d \in ChangedDocuments}

ResponseFrames ==
    {Frame("ok", 1, NoMethod, PlainParams("absent"), TRUE, FALSE),
     Frame("ok", 1, "shutdown", PlainParams("absent"), FALSE, FALSE)}

OtherFrames ==
    {Frame("ok", NoId, "exit", PlainParams("absent"), FALSE, FALSE)}

Frames == FailureFrames \cup RequestFrames \cup NotificationFrames
            \cup ResponseFrames \cup OtherFrames

(* ---------------------------------------------------------------------- *)
(* protocol.rs: envelope classification and reading                        *)
(* ---------------------------------------------------------------------- *)

HasParams(f) == f.params.tag # "absent"

\* serde(untagged) tries the variants in declaration order.  RequestMessage
\* needs id, method and params; ResponseMessage needs id only (result and
\* error are optional, unknown fields are ignored); NotificationMessage
\* needs method and params.
MessageFromSlice(f) ==
    IF f.id # NoId /\ f.method # NoMethod /\ HasParams(f) THEN "Request"
    ELSE IF f.id # NoId THEN "Response"
    ELSE IF f.method # NoMethod /\ HasParams(f) THEN "Notification"
    ELSE "Err"

read_message(f) ==
    IF f.io # "ok" THEN "Err" ELSE MessageFromSlice(f)

\* serde_json::from_value::<P>(params) succeeds only on params of P's shape.
Decodes(params, shape) == params.tag = shape

(* ---------------------------------------------------------------------- *)
(* messagesender.rs / protocol.rs: outbound messages                       *)
(* ---------------------------------------------------------------------- *)

Location(uri, start, end) == [some |-> TRUE, uri |-> uri, start |-> start, end |-> end]
NoLocation == [some |-> FALSE, uri |-> "", start |-> 0, end |-> 0]

OutMsg(kind, id, code, what, uri, data) ==
    [kind |-> kind, id |-> id, code |-> code, what |-> what, uri |-> uri, data |-> data]

SuccessResponse(id, what, uri, data) == OutMsg("SuccessResponse", id, 0, what, uri, data)
ErrorResponse(id, code, what) == OutMsg("ErrorResponse", id, code, what, "", <<>>)
Notification(method, uri, data) == OutMsg("Notification", NoId, 0, method, uri, data)

InitializeResult(id) == SuccessResponse(id, "InitializeResult", "", <<>>)
NullResult(id) == SuccessResponse(id, "null", "", <<>>)
LocationResult(id, loc) ==
    IF loc.some THEN SuccessResponse(id, "Location", loc.uri, <<<<loc.start, loc.end>>>>)
    ELSE NullResult(id)

\* write_message emits the header, then the body, then flushes.
HeaderChunk(by, m) == [by |-> by, part |-> "header", msg |-> m]
BodyChunk(by, m) == [by |-> by, part |-> "body", msg |-> m]
write_message(stream, by, m) == stream \o <<HeaderChunk(by, m), BodyChunk(by, m)>>

(* ---------------------------------------------------------------------- *)
(* diagnostic.rs: the analysis of one document                             *)
(* ---------------------------------------------------------------------- *)

CheckSyntax(uri, text) == [kind |-> "CheckSyntax", uri |-> uri, text |-> text, pos |-> 0]
GotoDefinition(uri, pos) == [kind |-> "GotoDefinition", uri |-> uri, text |-> <<>>, pos |-> pos]

RECURSIVE Join(_)
\* Variant: the text of the last change replaces the document.
Join_last_change(changes) ==
    IF changes = <<>> THEN <<>> ELSE changes[Len(changes)]

\* content.join("")
Join(changes) ==
    IF changes = <<>> THEN <<>> ELSE Head(changes) \o Join(Tail(changes))

\* Index of the first item the grammar rejects, 0 when the text parses.
FirstError(text) ==
    IF \E i \in 1..Len(text) : text[i] = "X"
    THEN CHOOSE i \in 1..Len(text) : text[i] = "X" /\ \A j \in 1..(i - 1) : text[j] # "X"
    ELSE 0

Parses(text) == FirstError(text) = 0

NoAst == [some |-> FALSE, uri |-> "", text |-> <<>>]
Ast(uri, text) == [some |-> TRUE, uri |-> uri, text |-> text]

\* The files on disk: what File::open + read_to_string yield for a uri.  The
\* file of UriA parses, the file of UriC does not, UriB has no file.
Readable(uri) == uri \in {UriA, UriC}
DiskText(uri) == IF uri = UriC THEN <<"X">> ELSE <<"S">>

\* import.rs: one result per import statement of the tree, in order.
ImportedText == <<"S">>
RECURSIVE check_imports(_)
check_imports(text) ==
    IF text = <<>> THEN <<>>
    ELSE IF Head(text) = "I"
         THEN <<[ok |-> Parses(ImportedText), defs |-> ImportedText]>> \o check_imports(Tail(text))
         ELSE check_imports(Tail(text))

\* The grammar's error location (LineColLocation), one-based; the texts of
\* the model have one line, so a location is its column.
Pos(col) == [kind |-> "Pos", start |-> col, end |-> col]
Span(start, end) == [kind |-> "Span", start |-> start, end |-> end]

\* The parser reports the first rejected item as a point error.
ErrorLineCol(text) == Pos(FirstError(text))

\* convert_error_position: the one-based location becomes a zero-based range
\* <<start, end>>; a point error yields start = end.
convert_error_position(line_col) ==
    IF line_col.kind = "Pos"
    THEN <<line_col.start - 1, line_col.start - 1>>
    ELSE <<line_col.start - 1, line_col.end - 1>>

\* Variant: a failed parse still stores a tree for the text.
check_syntax_ast_keeps_tree(uri, text) == Ast(uri, text)

\* check_syntax: the new tree and the diagnostics it publishes (the list of
\* the diagnostics' ranges).
check_syntax_ast(uri, text) == IF Parses(text) THEN Ast(uri, text) ELSE NoAst
check_syntax_diagnostics(text) ==
    IF Parses(text) THEN <<>> ELSE <<convert_error_position(ErrorLineCol(text))>>

publish_diagnostics(uri, diagnostics) ==
    Notification("textDocument/publishDiagnostics", uri, diagnostics)

\* Variant: the cache is computed once and kept.
check_imported_files_keeps_first(a, old) ==
    IF old.some \/ ~a.some THEN old
    ELSE [some |-> TRUE, imports |-> check_imports(a.text)]

\* check_imported_files keeps the old cache when there is no tree.
check_imported_files(a, old) ==
    IF a.some THEN [some |-> TRUE, imports |-> check_imports(a.text)] ELSE old

NoImports == [some |-> FALSE, imports |-> <<>>]

is_same_uri(a, uri) == a.some /\ a.uri = uri

is_identifier_char(ch) == ch = "S"

\* get_identifier slices text[..offset]: an offset past the end aborts.
OffsetInText(text, offset) == offset <= Len(text)

RECURSIVE ExtendLeft(_, _)
ExtendLeft(text, s) ==
    IF s > 0 /\ is_identifier_char(text[s]) THEN ExtendLeft(text, s - 1) ELSE s
RECURSIVE ExtendRight(_, _)
ExtendRight(text, e) ==
    IF e < Len(text) /\ is_identifier_char(text[e + 1]) THEN ExtendRight(text, e + 1) ELSE e

\* The identifier under the cursor as the half-open range <<s, e>>.
get_identifier(text, offset) == <<ExtendLeft(text, offset), ExtendRight(text, offset)>>

\* The lookup in the current document, then in the imported files.
find_definition_in_doc(a, ident) ==
    IF ident[1] < ident[2] THEN Location(a.uri, ident[1], ident[2]) ELSE NoLocation

find_definition_reply(a, pos) ==
    find_definition_in_doc(a, get_identifier(a.text, pos))

(* ---------------------------------------------------------------------- *)
(* syntax.rs: the tree of a parsed file                                    *)
(* ---------------------------------------------------------------------- *)

Range(start, end) == [start |-> start, end |-> end]

\* A statement or a member: its kind, the range of its name and, for an
\* interface or a struct, its members.
Declaration(kind, name, members) == [kind |-> kind, name |-> name, members |-> members]
MojomFile(stmts) == [stmts |-> stmts]

LeafStatements == {"Module", "Import", "Union", "Enum", "Const"}
InterfaceMember == {"Const", "Enum", "Method"}
StructBody == {"Const", "Enum", "StructField"}

SeqsUpTo(S, n) == UNION {[1..k -> S] : k \in 0..n}

\* What the author wrote: the kind and the identifier of each declaration.
\* The text is a sequence of tokens; the name of statement i is token
\* NameAt(i, 0) and the name of its j-th member is token NameAt(i, j).
Written(kind, ident, members) == [kind |-> kind, ident |-> ident, members |-> members]
NameAt(i, j) == (i - 1) * (MaxMembers + 1) + 1 + j
NameRange(i, j) == Range(NameAt(i, j) - 1, NameAt(i, j))

TextOf(written) ==
    [p \in 1..(Len(written) * (MaxMembers + 1)) |->
        LET i == ((p - 1) \div (MaxMembers + 1)) + 1
            j == (p - 1) % (MaxMembers + 1)
        IN  IF j = 0 THEN written[i].ident
            ELSE IF j <= Len(written[i].members) THEN written[i].members[j].ident
            ELSE ";"]

\* parse: the tree keeps the source order and the range of every name.
parse(written) ==
    MojomFile([i \in 1..Len(written) |->
        Declaration(written[i].kind, NameRange(i, 0),
            [j \in 1..Len(written[i].members) |->
                Declaration(written[i].members[j].kind, NameRange(i, j), <<>>)])])

(* ---------------------------------------------------------------------- *)
(* traverse.rs: the preorder iterator                                      *)
(* ---------------------------------------------------------------------- *)

\* A node that has children: 0 is the file, i > 0 its i-th statement.
Root == 0

Traversal(event, at) == [event |-> event, at |-> at]
NoItem == Traversal("None", <<>>)
NotCalled == Traversal("not called", <<>>)

\* TraversalState
NonLeafState(node) == [state |-> "NonLeaf", node |-> node, pos |-> 0]
Child(node, pos) == [state |-> "Child", node |-> node, pos |-> pos]

enter(m, node) ==
    IF node = Root THEN Traversal("EnterMojomFile", <<>>)
    ELSE IF m.stmts[node].kind = "Interface" THEN Traversal("EnterInterface", <<node>>)
    ELSE Traversal("EnterStruct", <<node>>)

leave(m, node) ==
    IF node = Root THEN Traversal("LeaveMojomFile", <<>>)
    ELSE IF m.stmts[node].kind = "Interface" THEN Traversal("LeaveInterface", <<node>>)
    ELSE Traversal("LeaveStruct", <<node>>)

\* Node: a leaf with the event of its visit, or a node that has children.
Leaf(kind, at) == [some |-> TRUE, leaf |-> TRUE, node |-> Root, visit |-> Traversal(kind, at)]
NonLeaf(node) == [some |-> TRUE, leaf |-> FALSE, node |-> node, visit |-> NoItem]
NoNode == [some |-> FALSE, leaf |-> FALSE, node |-> Root, visit |-> NoItem]

\* Variant: the last child of a node is not visited.
visit_child_stops_early(m, node, pos) ==
    IF node = Root
    THEN IF pos + 1 >= Len(m.stmts) THEN NoNode
         ELSE IF m.stmts[pos + 1].kind \in {"Interface", "Struct"} THEN NonLeaf(pos + 1)
         ELSE Leaf(m.stmts[pos + 1].kind, <<pos + 1>>)
    ELSE IF pos + 1 >= Len(m.stmts[node].members) THEN NoNode
         ELSE Leaf(m.stmts[node].members[pos + 1].kind, <<node, pos + 1>>)

\* NonLeaf::visit_child of MojomFile, Interface and Struct
visit_child(m, node, pos) ==
    IF node = Root
    THEN IF pos >= Len(m.stmts) THEN NoNode
         ELSE IF m.stmts[pos + 1].kind \in {"Interface", "Struct"} THEN NonLeaf(pos + 1)
         ELSE Leaf(m.stmts[pos + 1].kind, <<pos + 1>>)
    ELSE IF pos >= Len(m.stmts[node].members) THEN NoNode
         ELSE Leaf(m.stmts[node].members[pos + 1].kind, <<node, pos + 1>>)

Top(st) == st[Len(st)]
Pop(st) == SubSeq(st, 1, Len(st) - 1)

\* Preorder::next: the item it returns
next_item(m, st) ==
    IF st = <<>> THEN NoItem
    ELSE IF Top(st).state = "NonLeaf" THEN enter(m, Top(st).node)
    ELSE LET child == visit_child(m, Top(st).node, Top(st).pos)
         IN  IF ~child.some THEN leave(m, Top(st).node)
             ELSE IF child.leaf THEN child.visit
             ELSE enter(m, child.node)

\* Preorder::next: the stack it leaves
next_stack(m, st) ==
    IF st = <<>> THEN st
    ELSE IF Top(st).state = "NonLeaf" THEN Append(Pop(st), Child(Top(st).node, 0))
    ELSE LET child == visit_child(m, Top(st).node, Top(st).pos)
             again == Append(Pop(st), Child(Top(st).node, Top(st).pos + 1))
         IN  IF ~child.some THEN Pop(st)
             ELSE IF child.leaf THEN again
             ELSE Append(again, Child(child.node, 0))

preorder(m) == <<NonLeafState(Root)>>

RECURSIVE Collect(_, _)
\* Every item of the iterator, as a for loop or filter_map over it sees them.
Collect(m, st) ==
    IF st = <<>> THEN <<>>
    ELSE <<next_item(m, st)>> \o Collect(m, next_stack(m, st))

(* ---------------------------------------------------------------------- *)
(* semantic.rs: the semantic analysis of a parsed file                     *)
(* ---------------------------------------------------------------------- *)

partial_text(text, range) == SubSeq(text, range.start + 1, range.end)

is_keyword(ident) ==
    ident \in {<<"array">>, <<"true">>, <<"false">>, <<"default">>, <<"bool">>,
               <<"int8">>, <<"uint8">>, <<"int16">>, <<"int32">>, <<"uint32">>,
               <<"int64">>, <<"uint64">>, <<"float">>, <<"double">>,
               <<"associated">>, <<"const">>, <<"enum">>, <<"handle">>,
               <<"import">>, <<"interface">>, <<"map">>, <<"module">>,
               <<"struct">>, <<"union">>}

\* The texts of the model have one line: the range of a diagnostic is the
\* range of offsets it was created for.
create_diagnostic(range, message) == [range |-> range, message |-> message]

SomeModule(stmt) == [some |-> TRUE, name |-> stmt.name]
NoModule == [some |-> FALSE, name |-> Range(0, 0)]
SemanticAnalysis(module, diagnostics) ==
    [returned |-> TRUE, module |-> module, diagnostics |-> diagnostics]
NotAnalysed == [returned |-> FALSE, module |-> NoModule, diagnostics |-> <<>>]

\* The declaration a Traversal refers to.
DeclarationAt(m, at) ==
    IF Len(at) = 1 THEN m.stmts[at[1]] ELSE m.stmts[at[1]].members[at[2]]

check_invalid_keywords(text, m) ==
    LET named == SelectSeq(Collect(m, preorder(m)),
                     LAMBDA t : t.event \in {"EnterInterface", "EnterStruct", "Module",
                                              "Method", "Union", "Enum", "Const",
                                              "StructField"})
        idents == [n \in 1..Len(named) |-> DeclarationAt(m, named[n].at).name]
        found == SelectSeq(idents, LAMBDA range : is_keyword(partial_text(text, range)))
    IN  [n \in 1..Len(found) |-> create_diagnostic(found[n], "Unexpected keyword")]

RECURSIVE find_module_from(_, _, _)
\* The loop of find_module from statement i on, with the module and the
\* diagnostics so far.
find_module_from(m, i, sofar) ==
    IF i > Len(m.stmts) THEN sofar
    ELSE IF m.stmts[i].kind # "Module" THEN find_module_from(m, i + 1, sofar)
    ELSE IF sofar.module.some
    THEN find_module_from(m, i + 1,
             SemanticAnalysis(sofar.module,
                       Append(sofar.diagnostics,
                              create_diagnostic(m.stmts[i].name,
                                                "Found more than one module statement"))))
    ELSE find_module_from(m, i + 1, SemanticAnalysis(SomeModule(m.stmts[i]), sofar.diagnostics))

find_module(text, m) == find_module_from(m, 1, SemanticAnalysis(NoModule, <<>>))

\* Variant: only the statement after the accepted module is diagnosed.
check_semantics_first_extra_only(text, m) ==
    SemanticAnalysis(find_module(text, m).module,
              (IF find_module(text, m).diagnostics = <<>> THEN <<>>
               ELSE <<Head(find_module(text, m).diagnostics)>>)
                  \o check_invalid_keywords(text, m))

check_semantics(text, m) ==
    SemanticAnalysis(find_module(text, m).module,
              find_module(text, m).diagnostics \o check_invalid_keywords(text, m))

(* ---------------------------------------------------------------------- *)
(* definition.rs: the lookup in the current document                       *)
(* ---------------------------------------------------------------------- *)

\* The texts of the model have one line: the range handed to the client
\* is the range of offsets of the name.
create_lsp_range(field) == Range(field.start, field.end)

RECURSIVE join(_)
\* path.join("."): the names with a dot between them
join(path) ==
    IF path = <<>> THEN <<>>
    ELSE IF Len(path) = 1 THEN Head(path)
    ELSE Head(path) \o <<".">> \o join(Tail(path))

\* Variant: the enclosing names are not part of the compared identifier.
match_field_bare_name(target, field, uri, text, path) ==
    IF partial_text(text, field) = target
    THEN Location(uri, create_lsp_range(field).start, create_lsp_range(field).end)
    ELSE NoLocation

match_field(target, field, uri, text, path) ==
    IF join(Append(path, partial_text(text, field))) = target
    THEN Location(uri, create_lsp_range(field).start, create_lsp_range(field).end)
    ELSE NoLocation

RECURSIVE find_definition_from(_, _, _, _, _, _)
\* The loop of find_definition_preorder over the remaining traversals, with
\* the path so far.
find_definition_from(ident, uri, text, m, traversals, path) ==
    IF traversals = <<>> THEN NoLocation
    ELSE LET traversal == Head(traversals)
             rest == Tail(traversals)
         IN  IF traversal.event \in {"EnterInterface", "EnterStruct"}
             THEN LET node == DeclarationAt(m, traversal.at)
                      loc == match_field(ident, node.name, uri, text, path)
                  IN  IF loc.some THEN loc
                      ELSE find_definition_from(ident, uri, text, m, rest,
                               Append(path, partial_text(text, node.name)))
             ELSE IF traversal.event \in {"LeaveInterface", "LeaveStruct"}
             THEN find_definition_from(ident, uri, text, m, rest, Pop(path))
             ELSE IF traversal.event \in {"Union", "Enum", "Const"}
             THEN LET node == DeclarationAt(m, traversal.at)
                      loc == match_field(ident, node.name, uri, text, path)
                  IN  IF loc.some THEN loc
                      ELSE find_definition_from(ident, uri, text, m, rest, path)
             ELSE find_definition_from(ident, uri, text, m, rest, path)

find_definition_preorder(ident, uri, text, m) ==
    find_definition_from(ident, uri, text, m, Collect(m, preorder(m)), <<>>)

RECURSIVE accept_members(_, _, _, _, _, _, _)
\* Variant: methods and struct fields are matched as well.
accept_members_every_member(ident, uri, text, members, j, path, found) ==
    IF j > Len(members) \/ found.some THEN found
    ELSE accept_members(ident, uri, text, members, j + 1, path,
             match_field(ident, members[j].name, uri, text, path))

\* Element::accept of an Interface or a Struct: the loop over the members
\* from member j on, for DefinitionVisitor with `found` so far.
accept_members(ident, uri, text, members, j, path, found) ==
    IF j > Len(members) \/ found.some THEN found
    ELSE accept_members(ident, uri, text, members, j + 1, path,
             IF members[j].kind \in {"Const", "Enum"}
             THEN match_field(ident, members[j].name, uri, text, path)
             ELSE found)

RECURSIVE accept_statements(_, _, _, _, _, _)
\* Element::accept of a MojomFile: the loop over the statements from
\* statement i on.
accept_statements(ident, uri, text, m, i, found) ==
    IF i > Len(m.stmts) \/ found.some THEN found
    ELSE LET stmt == m.stmts[i]
         IN  accept_statements(ident, uri, text, m, i + 1,
                 IF stmt.kind \in {"Interface", "Struct"}
                 THEN accept_members(ident, uri, text, stmt.members, 1,
                          <<partial_text(text, stmt.name)>>,
                          match_field(ident, stmt.name, uri, text, <<>>))
                 ELSE IF stmt.kind \in {"Union", "Enum", "Const"}
                 THEN match_field(ident, stmt.name, uri, text, <<>>)
                 ELSE found)

\* definition::find_definition, the lookup through DefinitionVisitor
find_definition(ident, uri, text, m) ==
    accept_statements(ident, uri, text, m, 1, NoLocation)

(* ---------------------------------------------------------------------- *)
(* imported_files.rs: the cache of the imported files                      *)
(* ---------------------------------------------------------------------- *)

\* The files below the workspace root, by the path an import statement
\* names: what File::open and parse yield for each.
ImportPaths == {"a.mojom", "b.mojom", "bad.mojom", "missing.mojom"}
NotFound == [found |-> FALSE, parses |-> FALSE, written |-> <<>>]
SyntaxError == [found |-> TRUE, parses |-> FALSE, written |-> <<>>]
Parsed(written) == [found |-> TRUE, parses |-> TRUE, written |-> written]
Disk(path) ==
    IF path = "a.mojom"
    THEN Parsed(<<Written("Module", "x", <<>>),
                  Written("Struct", "S", <<Written("Enum", "E", <<>>)>>)>>)
    ELSE IF path = "b.mojom"
    THEN Parsed(<<Written("Enum", "E", <<>>),
                  Written("Interface", "T", <<Written("Method", "E", <<>>)>>),
                  Written("Union", "S", <<>>)>>)
    ELSE IF path = "bad.mojom" THEN SyntaxError
    ELSE NotFound

ImportDefinition(ident, range) == [ident |-> ident, range |-> range]
Import(uri, module_name, definitions) ==
    [ok |-> TRUE, uri |-> uri, module_name |-> module_name, definitions |-> definitions]
ImportError == [ok |-> FALSE, uri |-> "", module_name |-> NoModule, definitions |-> <<>>]

add_definition(field, text, path) ==
    ImportDefinition(join(Append(path, partial_text(text, field))), create_lsp_range(field))

RECURSIVE parse_imported_loop(_, _, _, _, _)
\* Variant: the path is not popped when an interface or struct is left.
parse_imported_loop_keeps_path(text, m, traversals, path, definitions) ==
    IF traversals = <<>> THEN [path |-> path, definitions |-> definitions]
    ELSE LET traversal == Head(traversals)
             rest == Tail(traversals)
         IN  IF traversal.event \in {"EnterInterface", "EnterStruct"}
             THEN LET node == DeclarationAt(m, traversal.at)
                  IN  parse_imported_loop(text, m, rest,
                          Append(path, partial_text(text, node.name)),
                          Append(definitions, add_definition(node.name, text, path)))
             ELSE IF traversal.event \in {"Union", "Enum", "Const"}
             THEN parse_imported_loop(text, m, rest, path,
                      Append(definitions,
                             add_definition(DeclarationAt(m, traversal.at).name,
                                            text, path)))
             ELSE parse_imported_loop(text, m, rest, path, definitions)

\* The loop of parse_imported over the remaining traversals: the path and
\* the definitions when it ends.
parse_imported_loop(text, m, traversals, path, definitions) ==
    IF traversals = <<>> THEN [path |-> path, definitions |-> definitions]
    ELSE LET traversal == Head(traversals)
             rest == Tail(traversals)
         IN  IF traversal.event \in {"EnterInterface", "EnterStruct"}
             THEN LET node == DeclarationAt(m, traversal.at)
                  IN  parse_imported_loop(text, m, rest,
                          Append(path, partial_text(text, node.name)),
                          Append(definitions, add_definition(node.name, text, path)))
             ELSE IF traversal.event \in {"LeaveInterface", "LeaveStruct"}
             THEN parse_imported_loop(text, m, rest, Pop(path), definitions)
             ELSE IF traversal.event \in {"Union", "Enum", "Const"}
             THEN parse_imported_loop(text, m, rest, path,
                      Append(definitions,
                             add_definition(DeclarationAt(m, traversal.at).name,
                                            text, path)))
             ELSE parse_imported_loop(text, m, rest, path, definitions)

definitions_from(text, m, traversals, path) ==
    parse_imported_loop(text, m, traversals, path, <<>>).definitions

\* parse_imported for a path and what the disk holds there.
parse_imported_file(path, file) ==
    IF ~file.found \/ ~file.parses THEN ImportError
    ELSE LET text == TextOf(file.written)
             m == parse(file.written)
         IN  Import(path, check_semantics(text, m).module,
                    definitions_from(text, m, Collect(m, preorder(m)), <<>>))

parse_imported(path) == parse_imported_file(path, Disk(path))

RECURSIVE parsed_imports_from(_, _, _)
\* The loop of check_imports over the statements from statement i on.
parsed_imports_from(text, m, i) ==
    IF i > Len(m.stmts) THEN <<>>
    ELSE IF m.stmts[i].kind = "Import"
    THEN <<parse_imported(partial_text(text, m.stmts[i].name)[1])>>
         \o parsed_imports_from(text, m, i + 1)
    ELSE parsed_imports_from(text, m, i + 1)

ImportedFiles(parsed_imports) == [some |-> TRUE, parsed_imports |-> parsed_imports]

\* Variant: the first import that fails ends the resolution.
check_imports_of_until_error(text, m) ==
    LET all == parsed_imports_from(text, m, 1)
        failed == {k \in 1..Len(all) : ~all[k].ok}
        first == IF failed = {} THEN Len(all) + 1
                 ELSE CHOOSE k \in failed : \A l \in failed : k <= l
    IN  ImportedFiles(SubSeq(all, 1, first - 1))

\* check_imports for a tree
check_imports_of(text, m) == ImportedFiles(parsed_imports_from(text, m, 1))

\* The module name of an import, as text.
module_name_text(imported) ==
    partial_text(TextOf(Disk(imported.uri).written), imported.module_name.name)

RECURSIVE find_in_definitions(_, _, _)
\* The inner loop of ImportedFiles::find_definition from definition j on.
find_in_definitions(imported, ident, j) ==
    IF j > Len(imported.definitions) THEN NoLocation
    ELSE LET definition == imported.definitions[j]
             loc == Location(imported.uri, definition.range.start, definition.range.end)
         IN  IF definition.ident = ident THEN loc
             ELSE IF imported.module_name.some
                     /\ module_name_text(imported) \o <<".">> \o definition.ident = ident
             THEN loc
             ELSE find_in_definitions(imported, ident, j + 1)

RECURSIVE find_in_imports(_, _)
\* Variant: a failed import ends the scan.
find_in_imports_stops_at_failed(parsed_imports, ident) ==
    IF parsed_imports = <<>> THEN NoLocation
    ELSE IF ~Head(parsed_imports).ok THEN NoLocation
    ELSE IF find_in_definitions(Head(parsed_imports), ident, 1).some
    THEN find_in_definitions(Head(parsed_imports), ident, 1)
    ELSE find_in_imports(Tail(parsed_imports), ident)

\* The outer loop of ImportedFiles::find_definition over the valid imports.
find_in_imports(parsed_imports, ident) ==
    IF parsed_imports = <<>> THEN NoLocation
    ELSE IF ~Head(parsed_imports).ok THEN find_in_imports(Tail(parsed_imports), ident)
    ELSE IF find_in_definitions(Head(parsed_imports), ident, 1).some
    THEN find_in_definitions(Head(parsed_imports), ident, 1)
    ELSE find_in_imports(Tail(parsed_imports), ident)

\* diagnostic.rs find_definition_in_imported_files: nothing without a cache.
find_definition_in_imported_files(imported, ident) ==
    IF imported.some THEN find_in_imports(imported.parsed_imports, ident) ELSE NoLocation

\* Variant: the imported files are asked before the current document.
find_definition_or_imports_first(ident, uri, text, m, imported) ==
    IF find_definition_in_imported_files(imported, ident).some
    THEN find_definition_in_imported_files(imported, ident)
    ELSE find_definition(ident, uri, text, m)

\* Diagnostic::find_definition for a document that has a tree:
\* find_definition_in_doc(..).or(find_definition_in_imported_files(..))
find_definition_or(ident, uri, text, m, imported) ==
    IF find_definition(ident, uri, text, m).some
    THEN find_definition(ident, uri, text, m)
    ELSE find_definition_in_imported_files(imported, ident)

(* ---------------------------------------------------------------------- *)
(* protocol.rs: the header block                                           *)
(* ---------------------------------------------------------------------- *)

\* A stream is a sequence of tokens: a header name, a number, another word,
\* the separator ": " and the line ending "\r\n".
CRLF == "\r\n"
Separator == ": "
Whitespace == {CRLF, " "}

HeaderOk(n) == [returned |-> TRUE, ok |-> TRUE, content_length |-> n, error |-> ""]
HeaderErr(error) == [returned |-> TRUE, ok |-> FALSE, content_length |-> 0, error |-> error]

\* BufRead::read_line: the tokens up to and including the first line
\* ending, or all that is left when there is none.
LineEnd(stream) ==
    IF \E i \in 1..Len(stream) : stream[i] = CRLF
    THEN CHOOSE i \in 1..Len(stream) : stream[i] = CRLF /\ \A j \in 1..(i - 1) : stream[j] # CRLF
    ELSE Len(stream)
read_line(stream) == SubSeq(stream, 1, LineEnd(stream))
after_line(stream) == SubSeq(stream, LineEnd(stream) + 1, Len(stream))

RECURSIVE trim_start(_)
trim_start(line) ==
    IF line # <<>> /\ Head(line) \in Whitespace THEN trim_start(Tail(line)) ELSE line
RECURSIVE trim_end(_)
trim_end(line) ==
    IF line # <<>> /\ line[Len(line)] \in Whitespace
    THEN trim_end(SubSeq(line, 1, Len(line) - 1)) ELSE line
trim(line) == trim_end(trim_start(line))

RECURSIVE split(_)
\* str::split(": "): the pieces between all the separators.
split(line) ==
    IF \E i \in 1..Len(line) : line[i] = Separator
    THEN LET i == CHOOSE i \in 1..Len(line) :
                      line[i] = Separator /\ \A j \in 1..(i - 1) : line[j] # Separator
         IN  <<SubSeq(line, 1, i - 1)>> \o split(SubSeq(line, i + 1, Len(line)))
    ELSE <<line>>

to_ascii_lowercase(name) ==
    IF name = <<"Content-Length">> THEN <<"content-length">>
    ELSE IF name = <<"Content-Type">> THEN <<"content-type">>
    ELSE name

\* The decimal text of a number (`{}` in write!), and str::parse::<usize>,
\* which accepts exactly such texts.
Display(n) == ToString(n)
Numbers == 0..MaxContentLength
parses_usize(value) == Len(value) = 1 /\ \E n \in Numbers : Display(n) = value[1]
NumberOf(word) == CHOOSE n \in Numbers : Display(n) = word

RECURSIVE read_header_from(_, _)
\* The loop of read_header over what is left of the stream, with the
\* content length so far ([some, n]).
read_header_from(stream, content_length) ==
    IF stream = <<>> THEN HeaderErr("No header")
    ELSE IF read_line(stream) = <<CRLF>>
    THEN IF content_length.some THEN HeaderOk(content_length.n)
         ELSE HeaderErr("No content length")
    ELSE LET header_fields == split(trim(read_line(stream)))
         IN  IF Len(header_fields) # 2 THEN HeaderErr("Invalid header")
             ELSE IF to_ascii_lowercase(header_fields[1]) = <<"content-length">>
             THEN IF parses_usize(header_fields[2])
                  THEN read_header_from(after_line(stream),
                           [some |-> TRUE, n |-> NumberOf(header_fields[2][1])])
                  ELSE HeaderErr("invalid digit")
             ELSE read_header_from(after_line(stream), content_length)

read_header(stream) == read_header_from(stream, [some |-> FALSE, n |-> 0])

RECURSIVE header_rest(_)
\* What read_header leaves in the stream when it returns Ok: all that
\* follows the empty line.
header_rest(stream) ==
    IF stream = <<>> THEN <<>>
    ELSE IF read_line(stream) = <<CRLF>> THEN after_line(stream)
    ELSE header_rest(after_line(stream))

(* ---------------------------------------------------------------------- *)
(* protocol.rs: the frames on a stream                                     *)
(* ---------------------------------------------------------------------- *)

\* A message: its variant, id, method and the JSON text of its params or
\* result.
WireMessage(kind, id, method, payload) ==
    [kind |-> kind, id |-> id, method |-> method, payload |-> payload]

\* serde_json::to_string of JsonRpcRequestMessage, JsonRpcResponseMessage
\* and JsonRpcNotificationMessage: the fields in declaration order.
to_string(message) ==
    IF message.kind = "Request"
    THEN <<"{", "jsonrpc", "id", Display(message.id), "method", message.method, "params">>
         \o message.payload \o <<"}">>
    ELSE IF message.kind = "Response"
    THEN <<"{", "jsonrpc", "id", Display(message.id), "result">> \o message.payload \o <<"}">>
    ELSE <<"{", "jsonrpc", "method", message.method, "params">> \o message.payload \o <<"}">>

\* The fields of a JSON object written by to_string.
JsonObject(buf) ==
    LET has_id == buf[3] = "id"
        a == IF has_id THEN 5 ELSE 3
        has_method == buf[a] = "method"
        b == IF has_method THEN a + 2 ELSE a
    IN  [frame |-> Frame("ok", IF has_id THEN NumberOf(buf[4]) ELSE NoId,
                         IF has_method THEN buf[a + 1] ELSE NoMethod,
                         PlainParams(IF buf[b] = "params" THEN "value" ELSE "absent"),
                         buf[b] = "result", buf[b] = "error"),
         payload |-> SubSeq(buf, b + 1, Len(buf) - 1)]

\* Message::from_slice
from_slice(buf) ==
    WireMessage(MessageFromSlice(JsonObject(buf).frame), JsonObject(buf).frame.id,
                JsonObject(buf).frame.method, JsonObject(buf).payload)

\* Variant: the declared length counts one byte too many.
write_message_to_one_more(stream, message) ==
    stream \o <<"Content-Length", Separator, Display(Len(to_string(message)) + 1), CRLF, CRLF>>
           \o to_string(message)

\* write_message on a stream of bytes
write_message_to(stream, message) ==
    stream \o <<"Content-Length", Separator, Display(Len(to_string(message))), CRLF, CRLF>>
           \o to_string(message)

\* read_message on a stream of bytes: the message and how much of the
\* stream it has consumed.
ReadOk(message, used) == [ok |-> TRUE, message |-> message, used |-> used]
ReadErr == [ok |-> FALSE, message |-> WireMessage("Err", NoId, NoMethod, <<>>), used |-> 0]
read_message_from(stream) ==
    LET header == read_header(stream)
        rest == header_rest(stream)
    IN  IF ~header.ok THEN ReadErr
        ELSE IF Len(rest) < header.content_length THEN ReadErr
        ELSE IF from_slice(SubSeq(rest, 1, header.content_length)).kind = "Err" THEN ReadErr
        ELSE ReadOk(from_slice(SubSeq(rest, 1, header.content_length)),
                    Len(stream) - Len(rest) + header.content_length)

(* ---------------------------------------------------------------------- *)
(* server.rs: the root of the workspace                                    *)
(* ---------------------------------------------------------------------- *)

\* An absolute path is the sequence of its components; PathBuf::new() is
\* the empty path, which is not absolute.
AbsolutePath(parts) == [absolute |-> TRUE, parts |-> parts]
EmptyPath == [absolute |-> FALSE, parts |-> <<>>]

SomePath(path) == [some |-> TRUE, path |-> path]
NoPath == [some |-> FALSE, path |-> EmptyPath]

\* Path::file_name, Path::parent and PathBuf::pop
has_file_name(path) == path.parts # <<>>
file_name(path) == path.parts[Len(path.parts)]
has_parent(path) == path.parts # <<>>
parent(path) == [path EXCEPT !.parts = SubSeq(path.parts, 1, Len(path.parts) - 1)]

\* `gclient` is the set of the directories that hold a file `.gclient`.
is_chromium_src_dir(path, gclient) ==
    IF ~(has_file_name(path) /\ file_name(path) = "src") THEN FALSE
    ELSE IF has_parent(path) THEN parent(path) \in gclient
    ELSE FALSE

RECURSIVE pop_until_src(_, _, _)
\* The while loop of find_chromium_src_dir.
pop_until_src(path, original, gclient) ==
    IF ~has_parent(path) THEN original
    ELSE IF is_chromium_src_dir(parent(path), gclient) THEN parent(path)
    ELSE pop_until_src(parent(path), original, gclient)

find_chromium_src_dir(path, gclient) ==
    IF is_chromium_src_dir(path, gclient) THEN path
    ELSE pop_until_src(path, path, gclient)

\* Url::to_file_path succeeds for the file scheme only.
Url(scheme, path) == [some |-> TRUE, scheme |-> scheme, path |-> path]
NoUrl == [some |-> FALSE, scheme |-> "", path |-> EmptyPath]
to_file_path(uri) == IF uri.scheme = "file" THEN SomePath(uri.path) ELSE NoPath

InitializeParams(root_uri, root_path) == [root_uri |-> root_uri, root_path |-> root_path]

get_root_path(params, gclient) ==
    IF ~params.root_uri.some THEN NoPath
    ELSE IF ~to_file_path(params.root_uri).some THEN NoPath
    ELSE SomePath(find_chromium_src_dir(to_file_path(params.root_uri).path, gclient))

\* start: get_root_path(&params).unwrap_or(PathBuf::new())
root_path_of(params, gclient) ==
    IF get_root_path(params, gclient).some THEN get_root_path(params, gclient).path
    ELSE EmptyPath

(* ---------------------------------------------------------------------- *)
(* mojom.pest: the pairs the grammar produces for a text                   *)
(* ---------------------------------------------------------------------- *)

\* A text is a sequence of one-character strings; a pair is a matched rule
\* with the byte span it covers and the pairs matched inside it.
Pair(rule, start, end, inner) ==
    [rule |-> rule, start |-> start, end |-> end, inner |-> inner]
Matched(text, pairs) == [text |-> text, pairs |-> pairs]

RECURSIVE shift(_, _)
shift(pairs, n) ==
    [i \in 1..Len(pairs) |->
        Pair(pairs[i].rule, pairs[i].start + n, pairs[i].end + n,
             shift(pairs[i].inner, n))]

\* Text that is matched without a pair of its own: whitespace and the
\* keywords that have no token rule.
silent(text) == Matched(text, <<>>)
WHITESPACE == silent(<<" ">>)
\* A rule that matches `text` and has nothing inside.
token(rule, text) == Matched(text, <<Pair(rule, 0, Len(text), <<>>)>>)
then(a, b) == Matched(a.text \o b.text, a.pairs \o shift(b.pairs, Len(a.text)))
RECURSIVE sequence(_)
sequence(parts) ==
    IF parts = <<>> THEN silent(<<>>)
    ELSE then(Head(parts), sequence(Tail(parts)))
\* A rule that matches what `matched` matched, with its pairs inside.
rule(name, matched) ==
    Matched(matched.text, <<Pair(name, 0, Len(matched.text), matched.pairs)>>)
optional(present, matched) == IF present THEN matched ELSE silent(<<>>)

RECURSIVE separated(_, _)
separated(parts, separator) ==
    IF Len(parts) <= 1 THEN sequence(parts)
    ELSE sequence(<<Head(parts), separator, WHITESPACE,
                    separated(Tail(parts), separator)>>)

\* What was written: every declaration with its identifier.
NoText == <<>>
WrittenParameter(typ, name, ordinal) ==
    [typ |-> typ, name |-> name, ordinal |-> ordinal]
WrittenResponse(arrow, params) == [arrow |-> arrow, params |-> params]
WrittenMethod(attribute, name, ordinal, params, response) ==
    [kind |-> "Method", attribute |-> attribute, name |-> name,
     ordinal |-> ordinal, params |-> params, response |-> response]
WrittenConst(typ, name, value) ==
    [kind |-> "Const", typ |-> typ, name |-> name, value |-> value]
WrittenEnumValue(name, value) == [name |-> name, value |-> value]
WrittenEnum(attribute, name, block, values) ==
    [kind |-> "Enum", attribute |-> attribute, name |-> name,
     block |-> block, values |-> values]
WrittenField(typ, name, ordinal, default) ==
    [kind |-> "StructField", typ |-> typ, name |-> name, ordinal |-> ordinal,
     default |-> default]
WrittenStruct(attribute, name, body, members) ==
    [kind |-> "Struct", attribute |-> attribute, name |-> name,
     body |-> body, members |-> members]
WrittenUnion(name, fields) == [kind |-> "Union", name |-> name, fields |-> fields]
WrittenInterface(attribute, name, members) ==
    [kind |-> "Interface", attribute |-> attribute, name |-> name,
     members |-> members]
WrittenModule(attribute, name) ==
    [kind |-> "Module", attribute |-> attribute, name |-> name]
WrittenImport(path) == [kind |-> "Import", path |-> path]

Rule_attribute_section == token("attribute_section", <<"[", "A", "]">>)
Rule_attribute(present) ==
    optional(present, then(Rule_attribute_section, WHITESPACE))
Rule_ordinal(ordinal) ==
    optional(ordinal # NoText, token("ordinal_value", ordinal))
Rule_semicolon == token("t_semicolon", <<";">>)

Rule_parameter(written) ==
    rule("parameter",
         sequence(<<token("type_spec", written.typ), WHITESPACE,
                    token("identifier", written.name),
                    Rule_ordinal(written.ordinal)>>))
Rule_parameter_list(params) ==
    rule("parameter_list",
         sequence(<<token("t_lparen", <<"(">>),
                    separated([i \in 1..Len(params) |-> Rule_parameter(params[i])],
                              token("t_comma", <<",">>)),
                    token("t_rparen", <<")">>)>>))
Rule_response(written) ==
    optional(written.arrow,
             then(WHITESPACE,
                  rule("response",
                       sequence(<<token("t_arrow", <<"=", ">">>), WHITESPACE,
                                  Rule_parameter_list(written.params)>>))))
Rule_method_stmt(written) ==
    rule("method_stmt",
         sequence(<<Rule_attribute(written.attribute),
                    token("identifier", written.name),
                    Rule_ordinal(written.ordinal),
                    Rule_parameter_list(written.params),
                    Rule_response(written.response),
                    Rule_semicolon>>))
Rule_const_stmt(written) ==
    rule("const_stmt",
         sequence(<<token("t_const", <<"c", "o", "n", "s", "t">>), WHITESPACE,
                    token("type_spec", written.typ), WHITESPACE,
                    token("identifier", written.name), WHITESPACE,
                    token("t_equal", <<"=">>), WHITESPACE,
                    token("literal", written.value),
                    Rule_semicolon>>))
Rule_enum_value(written) ==
    rule("enum_value",
         sequence(<<token("identifier", written.name),
                    optional(written.value # NoText,
                             then(token("t_equal", <<"=">>),
                                  token("literal", written.value)))>>))
Rule_enum_block(values) ==
    rule("enum_block",
         sequence(<<token("t_lbrace", <<"{">>),
                    separated([i \in 1..Len(values) |-> Rule_enum_value(values[i])],
                              token("t_comma", <<",">>)),
                    token("t_rbrace", <<"}">>)>>))
\* `enum` has no token rule: the keyword is matched silently.
Rule_enum_stmt(written) ==
    rule("enum_stmt",
         sequence(<<Rule_attribute(written.attribute),
                    silent(<<"e", "n", "u", "m", " ">>),
                    token("identifier", written.name),
                    optional(written.block,
                             then(WHITESPACE, Rule_enum_block(written.values))),
                    Rule_semicolon>>))
Rule_struct_field(written) ==
    rule("struct_field",
         sequence(<<token("type_spec", written.typ), WHITESPACE,
                    token("identifier", written.name),
                    Rule_ordinal(written.ordinal),
                    optional(written.default # NoText,
                             then(WHITESPACE,
                                  rule("default",
                                       then(token("t_equal", <<"=">>),
                                            token("literal", written.default))))),
                    Rule_semicolon>>))
Rule_struct_item(written) ==
    rule("struct_item",
         CASE written.kind = "Const" -> Rule_const_stmt(written)
           [] written.kind = "Enum" -> Rule_enum_stmt(written)
           [] written.kind = "StructField" -> Rule_struct_field(written))
Rule_struct_body(members) ==
    rule("struct_body",
         sequence(<<token("t_lbrace", <<"{">>)>>
                  \o [i \in 1..Len(members) |-> Rule_struct_item(members[i])]
                  \o <<token("t_rbrace", <<"}">>)>>))
Rule_struct_stmt(written) ==
    rule("struct_stmt",
         sequence(<<Rule_attribute(written.attribute),
                    token("t_struct", <<"s", "t", "r", "u", "c", "t">>), WHITESPACE,
                    token("identifier", written.name),
                    optional(written.body,
                             then(WHITESPACE, Rule_struct_body(written.members))),
                    Rule_semicolon>>))
Rule_union_field(written) ==
    rule("union_field",
         sequence(<<token("type_spec", written.typ), WHITESPACE,
                    token("identifier", written.name),
                    Rule_ordinal(written.ordinal),
                    Rule_semicolon>>))
Rule_union_stmt(written) ==
    rule("union_stmt",
         sequence(<<token("t_union", <<"u", "n", "i", "o", "n">>), WHITESPACE,
                    token("identifier", written.name), WHITESPACE,
                    token("t_lbrace", <<"{">>)>>
                  \o [i \in 1..Len(written.fields) |->
                         Rule_union_field(written.fields[i])]
                  \o <<token("t_rbrace", <<"}">>), Rule_semicolon>>))
Rule_interface_body(written) ==
    rule("interface_body",
         CASE written.kind = "Const" -> Rule_const_stmt(written)
           [] written.kind = "Enum" -> Rule_enum_stmt(written)
           [] written.kind = "Method" -> Rule_method_stmt(written))
Rule_interface(written) ==
    rule("interface",
         sequence(<<Rule_attribute(written.attribute),
                    token("t_interface",
                          <<"i", "n", "t", "e", "r", "f", "a", "c", "e">>),
                    WHITESPACE,
                    token("identifier", written.name), WHITESPACE,
                    token("t_lbrace", <<"{">>)>>
                  \o [i \in 1..Len(written.members) |->
                         Rule_interface_body(written.members[i])]
                  \o <<token("t_rbrace", <<"}">>), Rule_semicolon>>))
Rule_module_stmt(written) ==
    rule("module_stmt",
         sequence(<<Rule_attribute(written.attribute),
                    token("t_module", <<"m", "o", "d", "u", "l", "e">>), WHITESPACE,
                    token("identifier", written.name),
                    Rule_semicolon>>))
Rule_import_stmt(written) ==
    rule("import_stmt",
         sequence(<<token("t_import", <<"i", "m", "p", "o", "r", "t">>), WHITESPACE,
                    token("string_literal", written.path),
                    Rule_semicolon>>))
Rule_statement(written) ==
    rule("statement",
         CASE written.kind = "Module" -> Rule_module_stmt(written)
           [] written.kind = "Import" -> Rule_import_stmt(written)
           [] written.kind = "Interface" -> Rule_interface(written)
           [] written.kind = "Struct" -> Rule_struct_stmt(written)
           [] written.kind = "Union" -> Rule_union_stmt(written)
           [] written.kind = "Enum" -> Rule_enum_stmt(written)
           [] written.kind = "Const" -> Rule_const_stmt(written))
Rule_mojom_file(statements) ==
    rule("mojom_file",
         sequence([i \in 1..Len(statements) |->
                      then(Rule_statement(statements[i]), WHITESPACE)]
                  \o <<token("EOI", <<>>)>>))

(* ---------------------------------------------------------------------- *)
(* syntax.rs: lowering the pairs to the tree                               *)
(* ---------------------------------------------------------------------- *)

\* `pairs` is the iterator: Head is what next() returns, Tail what is left.
Some(value) == [some |-> TRUE, value |-> value]
None == [some |-> FALSE]

skip_attribute_list(pairs) ==
    IF Head(pairs).rule = "attribute_section" THEN Tail(pairs) ELSE pairs
consume_as_range(pairs) == Range(Head(pairs).start, Head(pairs).end)

Parameter(typ, name, ordinal) == [typ |-> typ, name |-> name, ordinal |-> ordinal]
Response(params) == [params |-> params]
Method(name, ordinal, params, response) ==
    [kind |-> "Method", name |-> name, ordinal |-> ordinal, params |-> params,
     response |-> response]
Const(typ, name, value) == [kind |-> "Const", typ |-> typ, name |-> name, value |-> value]
EnumValue(name, value) == [name |-> name, value |-> value]
Enum(name, values) == [kind |-> "Enum", name |-> name, values |-> values]
StructField(typ, name, ordinal, default) ==
    [kind |-> "StructField", typ |-> typ, name |-> name, ordinal |-> ordinal,
     default |-> default]
Struct(name, members) == [kind |-> "Struct", name |-> name, members |-> members]
UnionField(typ, name, ordinal) == [typ |-> typ, name |-> name, ordinal |-> ordinal]
Union(name, fields) == [kind |-> "Union", name |-> name, fields |-> fields]
Interface(name, members) == [kind |-> "Interface", name |-> name, members |-> members]
Module(name) == [kind |-> "Module", name |-> name]
ImportStatement(path) == [kind |-> "Import", path |-> path]

into_module(pairs) ==
    LET named == Tail(skip_attribute_list(pairs))
    IN  Module(consume_as_range(named))

into_import(pairs) ==
    LET named == Tail(skip_attribute_list(pairs))
    IN  ImportStatement(consume_as_range(named))

into_const(pairs) ==
    LET typed == Tail(skip_attribute_list(pairs))
        named == Tail(typed)
        valued == Tail(Tail(named))
    IN  Const(consume_as_range(typed), consume_as_range(named),
              consume_as_range(valued))

into_enum_value(pairs) ==
    LET named == skip_attribute_list(pairs)
        valued == IF Tail(named) = <<>> THEN <<>> ELSE Tail(Tail(named))
    IN  EnumValue(consume_as_range(named),
                  IF valued = <<>> THEN None ELSE Some(consume_as_range(valued)))

RECURSIVE into_enum_values(_, _)
into_enum_values(pairs, values) ==
    IF pairs = <<>> THEN values
    ELSE CASE Head(pairs).rule = "enum_value" ->
                into_enum_values(Tail(pairs),
                                 Append(values, into_enum_value(Head(pairs).inner)))
           [] Head(pairs).rule = "t_comma" -> into_enum_values(Tail(pairs), values)
           [] Head(pairs).rule = "t_rbrace" -> values

RECURSIVE into_enum_blocks(_, _)
into_enum_blocks(pairs, values) ==
    IF pairs = <<>> THEN values
    ELSE CASE Head(pairs).rule = "enum_block" ->
                into_enum_blocks(Tail(pairs),
                                 into_enum_values(Tail(Head(pairs).inner), values))
           [] Head(pairs).rule = "t_semicolon" -> values

into_enum_consumes_keyword(pairs) ==
    LET named == Tail(skip_attribute_list(pairs))
    IN  Enum(consume_as_range(named), into_enum_blocks(Tail(named), <<>>))

\* No keyword is consumed here: the name is the first pair after the
\* attribute section.
into_enum(pairs) ==
    LET named == skip_attribute_list(pairs)
    IN  Enum(consume_as_range(named), into_enum_blocks(Tail(named), <<>>))

RECURSIVE into_struct_field_rest(_, _)
into_struct_field_rest(pairs, res) ==
    IF pairs = <<>> THEN res
    ELSE CASE Head(pairs).rule = "ordinal_value" ->
                into_struct_field_rest(Tail(pairs),
                    [res EXCEPT !.ordinal = Some(consume_as_range(pairs))])
           [] Head(pairs).rule = "default" ->
                into_struct_field_rest(Tail(pairs),
                    [res EXCEPT !.default =
                        Some(consume_as_range(Tail(Head(pairs).inner)))])
           [] Head(pairs).rule = "t_semicolon" -> res

into_struct_field(pairs) ==
    LET typed == skip_attribute_list(pairs)
        named == Tail(typed)
    IN  into_struct_field_rest(Tail(named),
            StructField(consume_as_range(typed), consume_as_range(named),
                        None, None))

RECURSIVE into_struct_members_from(_, _)
into_struct_members_from(pairs, members) ==
    IF pairs = <<>> \/ Head(pairs).rule = "t_rbrace" THEN members
    ELSE LET struct_item == Head(Head(pairs).inner)
             member ==
                CASE struct_item.rule = "const_stmt" -> into_const(struct_item.inner)
                  [] struct_item.rule = "enum_stmt" -> into_enum(struct_item.inner)
                  [] struct_item.rule = "struct_field" ->
                        into_struct_field(struct_item.inner)
         IN  into_struct_members_from(Tail(pairs), Append(members, member))
into_struct_members(pairs) == into_struct_members_from(Tail(pairs), <<>>)

into_struct(pairs) ==
    LET named == Tail(skip_attribute_list(pairs))
        item == Head(Tail(named))
    IN  CASE item.rule = "t_semicolon" -> Struct(consume_as_range(named), <<>>)
          [] item.rule = "struct_body" ->
                Struct(consume_as_range(named), into_struct_members(item.inner))

RECURSIVE into_union_field_rest(_, _)
into_union_field_rest(pairs, ordinal) ==
    IF pairs = <<>> THEN ordinal
    ELSE CASE Head(pairs).rule = "ordinal_value" ->
                into_union_field_rest(Tail(pairs), Some(consume_as_range(pairs)))
           [] Head(pairs).rule = "t_semicolon" -> ordinal

into_union_field(pairs) ==
    LET typed == skip_attribute_list(pairs)
        named == Tail(typed)
    IN  UnionField(consume_as_range(typed), consume_as_range(named),
                   into_union_field_rest(Tail(named), None))

RECURSIVE into_union_fields(_, _)
into_union_fields(pairs, fields) ==
    CASE Head(pairs).rule = "union_field" ->
            into_union_fields(Tail(pairs),
                              Append(fields, into_union_field(Head(pairs).inner)))
      [] Head(pairs).rule = "t_rbrace" -> fields

into_union(pairs) ==
    LET named == Tail(skip_attribute_list(pairs))
    IN  Union(consume_as_range(named), into_union_fields(Tail(Tail(named)), <<>>))

into_parameter(pairs) ==
    LET named == Tail(pairs)
    IN  Parameter(consume_as_range(pairs), consume_as_range(named),
                  IF Tail(named) = <<>> THEN None
                  ELSE Some(consume_as_range(Tail(named))))

RECURSIVE parameter_list_from(_, _)
parameter_list_from(pairs, params) ==
    IF pairs = <<>> THEN params
    ELSE CASE Head(pairs).rule = "parameter" ->
                parameter_list_from(Tail(pairs),
                                    Append(params, into_parameter(Head(pairs).inner)))
           [] Head(pairs).rule = "t_comma" -> parameter_list_from(Tail(pairs), params)
           [] Head(pairs).rule = "t_rparen" -> params
parameter_list(pairs) == parameter_list_from(Tail(pairs), <<>>)

into_response(pairs) == Response(parameter_list(Head(Tail(pairs)).inner))

RECURSIVE into_method_response_only_with_params(_, _)
into_method_response_only_with_params(pairs, response) ==
    IF pairs = <<>> THEN response
    ELSE CASE Head(pairs).rule = "response" ->
                into_method_response_only_with_params(Tail(pairs),
                    IF into_response(Head(pairs).inner).params = <<>> THEN response
                    ELSE Some(into_response(Head(pairs).inner)))
           [] Head(pairs).rule = "t_semicolon" -> response

RECURSIVE into_method_response(_, _)
into_method_response(pairs, response) ==
    IF pairs = <<>> THEN response
    ELSE CASE Head(pairs).rule = "response" ->
                into_method_response(Tail(pairs),
                                     Some(into_response(Head(pairs).inner)))
           [] Head(pairs).rule = "t_semicolon" -> response

into_method(pairs) ==
    LET named == skip_attribute_list(pairs)
        has_ordinal == Head(Tail(named)).rule = "ordinal_value"
        listed == IF has_ordinal THEN Tail(Tail(named)) ELSE Tail(named)
    IN  Method(consume_as_range(named),
               IF has_ordinal THEN Some(consume_as_range(Tail(named))) ELSE None,
               parameter_list(Head(listed).inner),
               into_method_response(Tail(listed), None))

into_interface_member(pairs) ==
    LET member == Head(pairs)
    IN  CASE member.rule = "const_stmt" -> into_const(member.inner)
          [] member.rule = "enum_stmt" -> into_enum(member.inner)
          [] member.rule = "method_stmt" -> into_method(member.inner)

RECURSIVE into_interface_members(_, _)
into_interface_members(pairs, members) ==
    CASE Head(pairs).rule = "interface_body" ->
            into_interface_members(Tail(pairs),
                Append(members, into_interface_member(Head(pairs).inner)))
      [] Head(pairs).rule = "t_rbrace" -> members

into_interface(pairs) ==
    LET named == Tail(skip_attribute_list(pairs))
    IN  Interface(consume_as_range(named),
                  into_interface_members(Tail(Tail(named)), <<>>))

into_statement(pairs) ==
    LET stmt == Head(pairs)
    IN  CASE stmt.rule = "module_stmt" -> into_module(stmt.inner)
          [] stmt.rule = "import_stmt" -> into_import(stmt.inner)
          [] stmt.rule = "interface" -> into_interface(stmt.inner)
          [] stmt.rule = "struct_stmt" -> into_struct(stmt.inner)
          [] stmt.rule = "union_stmt" -> into_union(stmt.inner)
          [] stmt.rule = "enum_stmt" -> into_enum(stmt.inner)
          [] stmt.rule = "const_stmt" -> into_const(stmt.inner)

RECURSIVE into_mojom_file_from(_, _)
into_mojom_file_from(pairs, stmts) ==
    IF pairs = <<>> THEN stmts
    ELSE CASE Head(pairs).rule = "statement" ->
                into_mojom_file_from(Tail(pairs),
                                     Append(stmts, into_statement(Head(pairs).inner)))
           [] Head(pairs).rule = "EOI" -> stmts
into_mojom_file(pairs) == MojomFile(into_mojom_file_from(pairs, <<>>))

\* parse_input: the text is matched as a mojom_file.
parse_input(statements) == Rule_mojom_file(statements)
build_syntax_tree(pairs) == into_mojom_file(Head(pairs).inner)

(* ---------------------------------------------------------------------- *)
(* State                                                                   *)
(* ---------------------------------------------------------------------- *)

VARIABLES
    rpc,            \* reader: "initialize", "initialized", "loop", "await_reply",
                    \*         "returned", "panicked"
    ret,            \* what start() returned: "none", "Err", "Ok(0)" or "Ok(1)"
    state,          \* ServerContext.state
    exit_code,      \* ServerContext.exit_code: "None", "Some(0)" or "Some(1)"
    pending,        \* id of the request the reader awaits the reply for
    reads,          \* frames read in the dispatch loop
    log,            \* every frame the reader has read, in order
    chan,           \* the writer's channel
    enq,            \* every message sent on the writer's channel, in order
    wpc,            \* writer: "not_started", "recv", "body", "terminated"
    wcur,           \* the message the writer is writing
    out,            \* the output stream, as the chunks written to it
    cmds,           \* the analysis task's channel
    sent,           \* every command sent on the analysis task's channel, in order
    apc,            \* analysis: "not_started", "recv", "panicked"
    ast,            \* Diagnostic.ast
    imported_files, \* Diagnostic.imported_files
    reply,          \* the one-shot reply channel of a GotoDefinition
    mojom,          \* the MojomFile handed to the traversal or to check_semantics
    file_text,      \* the text the MojomFile was parsed from
    stack,          \* Preorder.stack
    item,           \* what the last call of Preorder::next returned
    events,         \* every Traversal the iterator has yielded, in order
    semantics,      \* the Analysis check_semantics returned
    input,          \* the arguments of the function under analysis
    output          \* what the function returned for them

vars == <<rpc, ret, state, exit_code, pending, reads, log, chan, enq, wpc, wcur,
          out, cmds, sent, apc, ast, imported_files, reply>>

readerVars == <<rpc, ret, state, exit_code, pending, reads, log>>
writerVars == <<wpc, wcur, out>>
analysisVars == <<apc, ast, imported_files>>
pureVars == <<mojom, file_text, stack, item, events, semantics, input, output>>

NoMsg == OutMsg("none", NoId, 0, "", "", <<>>)
NoReply == [st |-> "none", loc |-> NoLocation]

\* No function has been called on its own.
NoInput == [given |-> FALSE]
NotReturned == [returned |-> FALSE]
NoCall ==
    /\ input = NoInput
    /\ output = NotReturned

\* No traversal and no semantic analysis is under way.
NoTraversal ==
    /\ mojom = MojomFile(<<>>)
    /\ file_text = <<>>
    /\ stack = <<>>
    /\ item = NotCalled
    /\ events = <<>>
    /\ semantics = NotAnalysed
    /\ NoCall

ServerInit ==
    /\ rpc = "initialize"
    /\ ret = "none"
    /\ state = "none"
    /\ exit_code = "None"
    /\ pending = NoId
    /\ reads = 0
    /\ log = <<>>
    /\ chan = <<>>
    /\ enq = <<>>
    /\ wpc = "not_started"
    /\ wcur = NoMsg
    /\ out = <<>>
    /\ cmds = <<>>
    /\ sent = <<>>
    /\ apc = "not_started"
    /\ ast = NoAst
    /\ imported_files = NoImports
    /\ reply = NoReply

Init == ServerInit /\ NoTraversal

(* ---------------------------------------------------------------------- *)
(* initialization.rs: the handshake                                        *)
(* ---------------------------------------------------------------------- *)

\* start() returns the error of `?`.
ReturnErr ==
    /\ rpc' = "returned"
    /\ ret' = "Err"

\* initialize(), first message: anything but a decodable `initialize`
\* request is an error.
InitializeRejected(f) ==
    /\ rpc = "initialize"
    /\ \/ read_message(f) # "Request"
       \/ f.method # "initialize"
       \/ ~Decodes(f.params, "initialize")
    /\ log' = Append(log, f)
    /\ ReturnErr
    /\ UNCHANGED <<state, exit_code, pending, reads, chan, enq, writerVars,
                   cmds, sent, analysisVars, reply>>
    /\ UNCHANGED pureVars

\* initialize(), first message accepted: the reader itself writes the result.
InitializeAccepted(f) ==
    /\ rpc = "initialize"
    /\ read_message(f) = "Request"
    /\ f.method = "initialize"
    /\ Decodes(f.params, "initialize")
    /\ log' = Append(log, f)
    /\ out' = write_message(out, "reader", InitializeResult(f.id))
    /\ rpc' = "initialized"
    /\ UNCHANGED <<ret, state, exit_code, pending, reads, chan, enq, wpc, wcur,
                   cmds, sent, analysisVars, reply>>
    /\ UNCHANGED pureVars

\* initialize(), second message: anything but `initialized` is an error.
InitializedRejected(f) ==
    /\ rpc = "initialized"
    /\ \/ read_message(f) # "Notification"
       \/ f.method # "initialized"
    /\ log' = Append(log, f)
    /\ ReturnErr
    /\ UNCHANGED <<state, exit_code, pending, reads, chan, enq, writerVars,
                   cmds, sent, analysisVars, reply>>
    /\ UNCHANGED pureVars

\* Variant: the method of the second message is not compared.
InitializedAccepted_any_notification(f) ==
    /\ rpc = "initialized"
    /\ read_message(f) = "Notification"
    /\ log' = Append(log, f)
    /\ wpc' = "recv"
    /\ apc' = "recv"
    /\ state' = "Initialized"
    /\ rpc' = "loop"
    /\ UNCHANGED <<ret, exit_code, pending, reads, chan, enq, wcur, out,
                   cmds, sent, ast, imported_files, reply>>
    /\ UNCHANGED pureVars

\* initialize() returns Ok; start() spawns the two threads and enters the loop.
InitializedAccepted(f) ==
    /\ rpc = "initialized"
    /\ read_message(f) = "Notification"
    /\ f.method = "initialized"
    /\ log' = Append(log, f)
    /\ wpc' = "recv"
    /\ apc' = "recv"
    /\ state' = "Initialized"
    /\ rpc' = "loop"
    /\ UNCHANGED <<ret, exit_code, pending, reads, chan, enq, wcur, out,
                   cmds, sent, ast, imported_files, reply>>
    /\ UNCHANGED pureVars

(* ---------------------------------------------------------------------- *)
(* server.rs: the dispatch loop                                            *)
(* ---------------------------------------------------------------------- *)

\* The reader reads the next frame at the top of the loop.
Reads(f) ==
    /\ rpc = "loop"
    /\ reads < MaxReads
    /\ reads' = reads + 1
    /\ log' = Append(log, f)

\* MessageSender::send
Send(m) ==
    /\ chan' = Append(chan, m)
    /\ enq' = Append(enq, m)

\* Variant: the analysis thread takes the newest command first.
SendCommand_newest_first(c, next) ==
    IF apc = "panicked"
    THEN /\ rpc' = "panicked"
         /\ UNCHANGED <<cmds, sent>>
    ELSE /\ cmds' = <<c>> \o cmds
         /\ sent' = Append(sent, c)
         /\ rpc' = next

\* DiagnosticsThread: sender.send(..).unwrap() aborts the reader when the
\* analysis thread is gone.
SendCommand(c, next) ==
    IF apc = "panicked"
    THEN /\ rpc' = "panicked"
         /\ UNCHANGED <<cmds, sent>>
    ELSE /\ cmds' = Append(cmds, c)
         /\ sent' = Append(sent, c)
         /\ rpc' = next

\* Variant: the end of the input ends the loop with the exit code of the state.
ReadError_eof_exits(f) ==
    /\ Reads(f)
    /\ read_message(f) = "Err"
    /\ IF f.io \in {"eof_in_header", "eof_in_body"}
       THEN /\ rpc' = "returned"
            /\ ret' = IF state = "ShuttingDown" THEN "Ok(0)" ELSE "Ok(1)"
       ELSE ReturnErr
    /\ UNCHANGED <<state, exit_code, pending, chan, enq, writerVars,
                   cmds, sent, analysisVars, reply>>
    /\ UNCHANGED pureVars

\* read_message(..)? at the top of the loop
ReadError(f) ==
    /\ Reads(f)
    /\ read_message(f) = "Err"
    /\ ReturnErr
    /\ UNCHANGED <<state, exit_code, pending, chan, enq, writerVars,
                   cmds, sent, analysisVars, reply>>
    /\ UNCHANGED pureVars

\* unreachable!() on Message::Response
ResponseMessage(f) ==
    /\ Reads(f)
    /\ read_message(f) = "Response"
    /\ rpc' = "panicked"
    /\ UNCHANGED <<ret, state, exit_code, pending, chan, enq, writerVars,
                   cmds, sent, analysisVars, reply>>
    /\ UNCHANGED pureVars

\* Variant: the exit code does not depend on the state.
exit_code_ignoring_state(st) == "Some(0)"

\* exit_notification, then the loop's return of the exit code
exit_code_for(st) == IF st = "ShuttingDown" THEN "Some(0)" ELSE "Some(1)"
Ok(code) == IF code = "Some(0)" THEN "Ok(0)" ELSE "Ok(1)"

exit_notification ==
    /\ exit_code' = exit_code_for(state)
    /\ ret' = Ok(exit_code')
    /\ rpc' = "returned"

\* Variant: `exit` sent as a request is answered like any unknown request.
ExitRequest_unimplemented(f) ==
    /\ Reads(f)
    /\ read_message(f) = "Request"
    /\ f.method = "exit"
    /\ chan' = Append(chan, ErrorResponse(f.id, InternalError, "Unimplemented request"))
    /\ enq' = Append(enq, ErrorResponse(f.id, InternalError, "Unimplemented request"))
    /\ UNCHANGED <<rpc, ret, state, exit_code, pending, writerVars,
                   cmds, sent, analysisVars, reply>>
    /\ UNCHANGED pureVars

ExitRequest(f) ==
    /\ Reads(f)
    /\ read_message(f) = "Request"
    /\ f.method = "exit"
    /\ exit_notification
    /\ UNCHANGED <<state, pending, chan, enq, writerVars, cmds, sent, analysisVars, reply>>
    /\ UNCHANGED pureVars

ExitNotification(f) ==
    /\ Reads(f)
    /\ read_message(f) = "Notification"
    /\ f.method = "exit"
    /\ exit_notification
    /\ UNCHANGED <<state, pending, chan, enq, writerVars, cmds, sent, analysisVars, reply>>
    /\ UNCHANGED pureVars

\* initialize_request
InitializeRequest(f) ==
    /\ Reads(f)
    /\ read_message(f) = "Request"
    /\ f.method = "initialize"
    /\ Send(ErrorResponse(f.id, ServerNotInitialized, "Unexpected initialize message"))
    /\ UNCHANGED <<rpc, ret, state, exit_code, pending, writerVars,
                   cmds, sent, analysisVars, reply>>
    /\ UNCHANGED pureVars

\* Variant: a second shutdown is answered with an error.
ShutdownRequest_once(f) ==
    /\ Reads(f)
    /\ read_message(f) = "Request"
    /\ f.method = "shutdown"
    /\ state' = "ShuttingDown"
    /\ IF state = "ShuttingDown"
       THEN Send(ErrorResponse(f.id, InvalidRequest, "Unexpected shutdown message"))
       ELSE Send(NullResult(f.id))
    /\ UNCHANGED <<rpc, ret, exit_code, pending, writerVars,
                   cmds, sent, analysisVars, reply>>
    /\ UNCHANGED pureVars

\* Variant: the reader writes the response to the stream itself.
ShutdownRequest_writes_stream(f) ==
    /\ Reads(f)
    /\ read_message(f) = "Request"
    /\ f.method = "shutdown"
    /\ state' = "ShuttingDown"
    /\ out' = write_message(out, "reader", NullResult(f.id))
    /\ UNCHANGED <<rpc, ret, exit_code, pending, chan, enq, wpc, wcur,
                   cmds, sent, analysisVars, reply>>
    /\ UNCHANGED pureVars

\* shutdown_request
ShutdownRequest(f) ==
    /\ Reads(f)
    /\ read_message(f) = "Request"
    /\ f.method = "shutdown"
    /\ state' = "ShuttingDown"
    /\ Send(NullResult(f.id))
    /\ UNCHANGED <<rpc, ret, exit_code, pending, writerVars,
                   cmds, sent, analysisVars, reply>>
    /\ UNCHANGED pureVars

\* unimplemented_request
UnimplementedRequest(f) ==
    /\ Reads(f)
    /\ read_message(f) = "Request"
    /\ f.method \notin {"exit", "initialize", "shutdown", "textDocument/definition"}
    /\ Send(ErrorResponse(f.id, InternalError, "Unimplemented request"))
    /\ UNCHANGED <<rpc, ret, state, exit_code, pending, writerVars,
                   cmds, sent, analysisVars, reply>>
    /\ UNCHANGED pureVars

\* Variant: undecodable params are propagated with `?` as in notifications.
GotoDefinitionBadParams_propagated(f) ==
    /\ Reads(f)
    /\ read_message(f) = "Request"
    /\ f.method = "textDocument/definition"
    /\ ~Decodes(f.params, "position")
    /\ rpc' = "returned"
    /\ ret' = "Err"
    /\ UNCHANGED <<state, exit_code, pending, chan, enq, writerVars,
                   cmds, sent, analysisVars, reply>>
    /\ UNCHANGED pureVars

\* get_request_params fails: the error becomes the response
GotoDefinitionBadParams(f) ==
    /\ Reads(f)
    /\ read_message(f) = "Request"
    /\ f.method = "textDocument/definition"
    /\ ~Decodes(f.params, "position")
    /\ Send(ErrorResponse(f.id, InvalidRequest, "invalid params"))
    /\ UNCHANGED <<rpc, ret, state, exit_code, pending, writerVars,
                   cmds, sent, analysisVars, reply>>
    /\ UNCHANGED pureVars

\* Variant: the reader sends the command and goes on reading.
GotoDefinitionRequest_no_wait(f) ==
    /\ Reads(f)
    /\ read_message(f) = "Request"
    /\ f.method = "textDocument/definition"
    /\ Decodes(f.params, "position")
    /\ SendCommand(GotoDefinition(f.params.uri, f.params.pos), "loop")
    /\ pending' = f.id
    /\ UNCHANGED <<ret, state, exit_code, chan, enq, writerVars, analysisVars, reply>>
    /\ UNCHANGED pureVars

\* goto_definition_request: send the command, then block on the reply
GotoDefinitionRequest(f) ==
    /\ Reads(f)
    /\ read_message(f) = "Request"
    /\ f.method = "textDocument/definition"
    /\ Decodes(f.params, "position")
    /\ SendCommand(GotoDefinition(f.params.uri, f.params.pos), "await_reply")
    /\ pending' = f.id
    /\ UNCHANGED <<ret, state, exit_code, chan, enq, writerVars, analysisVars, reply>>
    /\ UNCHANGED pureVars

\* loc_receiver.recv().unwrap(), then the response and the end of the iteration
GotoDefinitionReply ==
    /\ rpc = "await_reply"
    /\ reply.st # "none"
    /\ IF reply.st = "ready"
       THEN /\ Send(LocationResult(pending, reply.loc))
            /\ rpc' = "loop"
       ELSE /\ rpc' = "panicked"
            /\ UNCHANGED <<chan, enq>>
    /\ pending' = NoId
    /\ reply' = NoReply
    /\ UNCHANGED <<ret, state, exit_code, reads, log, writerVars,
                   cmds, sent, analysisVars>>
    /\ UNCHANGED pureVars

\* get_params(..)? fails: handle_notification returns the error
NotificationBadParams(f) ==
    /\ Reads(f)
    /\ read_message(f) = "Notification"
    /\ \/ f.method = "textDocument/didOpen" /\ ~Decodes(f.params, "didOpen")
       \/ f.method = "textDocument/didChange" /\ ~Decodes(f.params, "didChange")
    /\ ReturnErr
    /\ UNCHANGED <<state, exit_code, pending, chan, enq, writerVars,
                   cmds, sent, analysisVars, reply>>
    /\ UNCHANGED pureVars

\* Variant: after `shutdown` a didOpen is dropped.
DidOpenTextDocument_until_shutdown(f) ==
    /\ Reads(f)
    /\ read_message(f) = "Notification"
    /\ f.method = "textDocument/didOpen"
    /\ Decodes(f.params, "didOpen")
    /\ IF state = "ShuttingDown"
       THEN UNCHANGED <<rpc, cmds, sent>>
       ELSE SendCommand(CheckSyntax(f.params.uri, f.params.text), "loop")
    /\ UNCHANGED <<ret, state, exit_code, pending, chan, enq, writerVars,
                   analysisVars, reply>>
    /\ UNCHANGED pureVars

\* did_open_text_document
DidOpenTextDocument(f) ==
    /\ Reads(f)
    /\ read_message(f) = "Notification"
    /\ f.method = "textDocument/didOpen"
    /\ Decodes(f.params, "didOpen")
    /\ SendCommand(CheckSyntax(f.params.uri, f.params.text), "loop")
    /\ UNCHANGED <<ret, state, exit_code, pending, chan, enq, writerVars,
                   analysisVars, reply>>
    /\ UNCHANGED pureVars

\* did_change_text_document
DidChangeTextDocument(f) ==
    /\ Reads(f)
    /\ read_message(f) = "Notification"
    /\ f.method = "textDocument/didChange"
    /\ Decodes(f.params, "didChange")
    /\ SendCommand(CheckSyntax(f.params.uri, Join(f.params.changes)), "loop")
    /\ UNCHANGED <<ret, state, exit_code, pending, chan, enq, writerVars,
                   analysisVars, reply>>
    /\ UNCHANGED pureVars

\* "Accept following notifications but do nothing."
IgnoredNotification(f) ==
    /\ Reads(f)
    /\ read_message(f) = "Notification"
    /\ f.method \in IgnoredNotifications
    /\ UNCHANGED <<rpc, ret, state, exit_code, pending, chan, enq, writerVars,
                   cmds, sent, analysisVars, reply>>
    /\ UNCHANGED pureVars

\* Variant: an unknown notification is an error of handle_notification.
UnimplementedNotification_error(f) ==
    /\ Reads(f)
    /\ read_message(f) = "Notification"
    /\ f.method \notin IgnoredNotifications
    /\ f.method \notin {"exit", "textDocument/didOpen", "textDocument/didChange"}
    /\ rpc' = "returned"
    /\ ret' = "Err"
    /\ UNCHANGED <<state, exit_code, pending, chan, enq, writerVars,
                   cmds, sent, analysisVars, reply>>
    /\ UNCHANGED pureVars

\* the `_` arm: logged only
UnimplementedNotification(f) ==
    /\ Reads(f)
    /\ read_message(f) = "Notification"
    /\ f.method \notin IgnoredNotifications
    /\ f.method \notin {"exit", "textDocument/didOpen", "textDocument/didChange"}
    /\ UNCHANGED <<rpc, ret, state, exit_code, pending, chan, enq, writerVars,
                   cmds, sent, analysisVars, reply>>
    /\ UNCHANGED pureVars

(* ---------------------------------------------------------------------- *)
(* messagesender.rs: the writer thread                                     *)
(* ---------------------------------------------------------------------- *)

\* receiver.recv() yields the oldest message; write_message starts with the
\* header.
WriterTakes(queue) == Head(queue)
WriterRest(queue) == Tail(queue)

\* Variant: the match has no arm that writes error responses.
WriterReceive_no_error_arm ==
    /\ wpc = "recv"
    /\ chan # <<>>
    /\ chan' = WriterRest(chan)
    /\ IF WriterTakes(chan).kind = "ErrorResponse"
       THEN UNCHANGED <<wcur, out, wpc>>
       ELSE /\ wcur' = WriterTakes(chan)
            /\ out' = Append(out, HeaderChunk("writer", wcur'))
            /\ wpc' = "body"
    /\ UNCHANGED <<readerVars, enq, cmds, sent, analysisVars, reply>>
    /\ UNCHANGED pureVars

WriterReceive ==
    /\ wpc = "recv"
    /\ chan # <<>>
    /\ wcur' = WriterTakes(chan)
    /\ chan' = WriterRest(chan)
    /\ out' = Append(out, HeaderChunk("writer", wcur'))
    /\ wpc' = "body"
    /\ UNCHANGED <<readerVars, enq, cmds, sent, analysisVars, reply>>
    /\ UNCHANGED pureVars

\* The sender handles of the writer's channel that have not been dropped:
\* ctx.msg_sender and MessageSenderThread.sender live in start() and are
\* dropped when it returns or unwinds; Diagnostic.msg_sender lives in the
\* analysis thread and is dropped when that thread unwinds.
Senders ==
    (IF wpc # "not_started" /\ rpc \notin {"returned", "panicked"}
     THEN {"reader", "MessageSenderThread"} ELSE {})
    \cup (IF apc = "recv" THEN {"analysis"} ELSE {})

\* Variant: the writer stops as soon as it finds its queue empty.
WriterTerminates_on_empty_queue ==
    /\ wpc = "recv"
    /\ chan = <<>>
    /\ wpc' = "terminated"
    /\ UNCHANGED <<readerVars, chan, enq, wcur, out, cmds, sent, analysisVars, reply>>
    /\ UNCHANGED pureVars

\* recv() fails once the queue is empty and every sender is dropped: break
WriterTerminates ==
    /\ wpc = "recv"
    /\ chan = <<>>
    /\ Senders = {}
    /\ wpc' = "terminated"
    /\ UNCHANGED <<readerVars, chan, enq, wcur, out, cmds, sent, analysisVars, reply>>
    /\ UNCHANGED pureVars

\* write_all(body) and flush(), then back to recv()
WriterBody ==
    /\ wpc = "body"
    /\ out' = Append(out, BodyChunk("writer", wcur))
    /\ wcur' = NoMsg
    /\ wpc' = "recv"
    /\ UNCHANGED <<readerVars, chan, enq, cmds, sent, analysisVars, reply>>
    /\ UNCHANGED pureVars

(* ---------------------------------------------------------------------- *)
(* diagnostic.rs: the analysis thread                                      *)
(* ---------------------------------------------------------------------- *)

\* Variant: a clean parse publishes nothing.
Check_silent_when_clean(uri, text) ==
    /\ ast' = check_syntax_ast(uri, text)
    /\ IF check_syntax_diagnostics(text) = <<>>
       THEN UNCHANGED <<chan, enq>>
       ELSE Send(publish_diagnostics(uri, check_syntax_diagnostics(text)))
    /\ imported_files' = check_imported_files(ast', imported_files)

\* Diagnostic::check as one step: the tree, the notification, the imports.
Check(uri, text) ==
    /\ ast' = check_syntax_ast(uri, text)
    /\ Send(publish_diagnostics(uri, check_syntax_diagnostics(text)))
    /\ imported_files' = check_imported_files(ast', imported_files)

\* The thread unwinds: its receiver and every queued command are dropped,
\* and with them the reply handle of a queued GotoDefinition.
AnalysisPanics ==
    /\ apc' = "panicked"
    /\ cmds' = <<>>
    /\ reply' = IF \E i \in 1..Len(cmds) : cmds[i].kind = "GotoDefinition"
                THEN [st |-> "dropped", loc |-> NoLocation]
                ELSE reply

\* Variant: the analysis thread writes its notification to the stream itself.
AnalysisCheck_writes_stream ==
    /\ apc = "recv"
    /\ cmds # <<>>
    /\ Head(cmds).kind = "CheckSyntax"
    /\ cmds' = Tail(cmds)
    /\ ast' = check_syntax_ast(Head(cmds).uri, Head(cmds).text)
    /\ out' = write_message(out, "analysis",
                publish_diagnostics(Head(cmds).uri, check_syntax_diagnostics(Head(cmds).text)))
    /\ imported_files' = check_imported_files(ast', imported_files)
    /\ UNCHANGED <<readerVars, wpc, wcur, chan, enq, sent, apc, reply>>
    /\ UNCHANGED pureVars

AnalysisCheck ==
    /\ apc = "recv"
    /\ cmds # <<>>
    /\ Head(cmds).kind = "CheckSyntax"
    /\ cmds' = Tail(cmds)
    /\ Check(Head(cmds).uri, Head(cmds).text)
    /\ UNCHANGED <<readerVars, writerVars, sent, apc, reply>>
    /\ UNCHANGED pureVars

\* find_definition on the current document
AnalysisFindDefinition ==
    /\ apc = "recv"
    /\ cmds # <<>>
    /\ Head(cmds).kind = "GotoDefinition"
    /\ is_same_uri(ast, Head(cmds).uri)
    /\ IF OffsetInText(ast.text, Head(cmds).pos)
       THEN /\ reply' = [st |-> "ready", loc |-> find_definition_reply(ast, Head(cmds).pos)]
            /\ cmds' = Tail(cmds)
            /\ UNCHANGED apc
       ELSE AnalysisPanics
    /\ UNCHANGED <<readerVars, writerVars, chan, enq, sent, ast, imported_files>>
    /\ UNCHANGED pureVars

\* receiver.recv().unwrap() aborts the thread once the queue is empty and
\* the DiagnosticsThread, which start() owns, has been dropped.
AnalysisChannelClosed ==
    /\ apc = "recv"
    /\ cmds = <<>>
    /\ rpc \in {"returned", "panicked"}
    /\ AnalysisPanics
    /\ UNCHANGED <<readerVars, writerVars, chan, enq, sent, ast, imported_files>>
    /\ UNCHANGED pureVars

\* find_definition on another document: open() fails and unwrap() aborts
AnalysisOpenFails ==
    /\ apc = "recv"
    /\ cmds # <<>>
    /\ Head(cmds).kind = "GotoDefinition"
    /\ ~is_same_uri(ast, Head(cmds).uri)
    /\ ~Readable(Head(cmds).uri)
    /\ AnalysisPanics
    /\ UNCHANGED <<readerVars, writerVars, chan, enq, sent, ast, imported_files>>
    /\ UNCHANGED pureVars

\* Variant: the request is answered from the tree at hand, without open().
AnalysisOpenAndFind_no_check ==
    /\ apc = "recv"
    /\ cmds # <<>>
    /\ Head(cmds).kind = "GotoDefinition"
    /\ ~is_same_uri(ast, Head(cmds).uri)
    /\ Readable(Head(cmds).uri)
    /\ reply' = [st |-> "ready",
                 loc |-> IF ast.some /\ OffsetInText(ast.text, Head(cmds).pos)
                         THEN find_definition_reply(ast, Head(cmds).pos)
                         ELSE NoLocation]
    /\ cmds' = Tail(cmds)
    /\ UNCHANGED <<readerVars, writerVars, chan, enq, sent, apc, ast, imported_files>>
    /\ UNCHANGED pureVars

\* find_definition on another document: open() checks the file's text first
AnalysisOpenAndFind ==
    /\ apc = "recv"
    /\ cmds # <<>>
    /\ Head(cmds).kind = "GotoDefinition"
    /\ ~is_same_uri(ast, Head(cmds).uri)
    /\ Readable(Head(cmds).uri)
    /\ Check(Head(cmds).uri, DiskText(Head(cmds).uri))
    /\ IF ~ast'.some
       THEN /\ reply' = [st |-> "ready", loc |-> NoLocation]
            /\ cmds' = Tail(cmds)
            /\ UNCHANGED apc
       ELSE IF OffsetInText(ast'.text, Head(cmds).pos)
       THEN /\ reply' = [st |-> "ready", loc |-> find_definition_reply(ast', Head(cmds).pos)]
            /\ cmds' = Tail(cmds)
            /\ UNCHANGED apc
       ELSE AnalysisPanics
    /\ UNCHANGED <<readerVars, writerVars, sent>>
    /\ UNCHANGED pureVars

(* ---------------------------------------------------------------------- *)
(* The system                                                              *)
(* ---------------------------------------------------------------------- *)

Handshake ==
    \E f \in Frames :
        \/ InitializeRejected(f)
        \/ InitializeAccepted(f)
        \/ InitializedRejected(f)
        \/ InitializedAccepted(f)

Dispatch ==
    \E f \in Frames :
        \/ ReadError(f)
        \/ ResponseMessage(f)
        \/ ExitRequest(f)
        \/ ExitNotification(f)
        \/ InitializeRequest(f)
        \/ ShutdownRequest(f)
        \/ UnimplementedRequest(f)
        \/ GotoDefinitionBadParams(f)
        \/ GotoDefinitionRequest(f)
        \/ NotificationBadParams(f)
        \/ DidOpenTextDocument(f)
        \/ DidChangeTextDocument(f)
        \/ IgnoredNotification(f)
        \/ UnimplementedNotification(f)

Reader == Handshake \/ Dispatch \/ GotoDefinitionReply
Writer == WriterReceive \/ WriterBody \/ WriterTerminates
Analysis ==
    \/ AnalysisCheck
    \/ AnalysisFindDefinition
    \/ AnalysisChannelClosed
    \/ AnalysisOpenFails
    \/ AnalysisOpenAndFind

Next == Reader \/ Writer \/ Analysis

Spec == Init /\ [][Next]_vars

\* The writer and the analysis thread are threads of their own: each gets
\* to run when it has something to do.
FairSpec == Spec /\ WF_vars(Writer) /\ WF_vars(Analysis)

(* ---------------------------------------------------------------------- *)
(* The traversal of a parsed file, one call of next() at a time            *)
(* ---------------------------------------------------------------------- *)

TraversalStatements ==
    {Written(k, "foo", <<>>) : k \in LeafStatements}
    \cup {Written("Interface", "foo", members) :
            members \in SeqsUpTo({Written(k, "foo", <<>>) : k \in InterfaceMember}, MaxMembers)}
    \cup {Written("Struct", "foo", members) :
            members \in SeqsUpTo({Written(k, "foo", <<>>) : k \in StructBody}, MaxMembers)}

TraversalSources == SeqsUpTo(TraversalStatements, MaxStmts)

PreorderInit ==
    /\ ServerInit
    /\ \E written \in TraversalSources :
          /\ mojom = parse(written)
          /\ file_text = TextOf(written)
    /\ stack = preorder(mojom)
    /\ item = NotCalled
    /\ events = <<>>
    /\ semantics = NotAnalysed
    /\ NoCall

PreorderNext ==
    /\ item' = next_item(mojom, stack)
    /\ stack' = next_stack(mojom, stack)
    /\ events' = IF item' = NoItem THEN events ELSE Append(events, item')
    /\ UNCHANGED <<mojom, file_text, semantics, input, output>>
    /\ UNCHANGED vars

PreorderSpec == PreorderInit /\ [][PreorderNext]_pureVars

(* ---------------------------------------------------------------------- *)
(* The semantic analysis of a parsed file                                  *)
(* ---------------------------------------------------------------------- *)

SemanticStatements ==
    {Written("Module", id, <<>>) : id \in {"foo", "array"}}
    \cup {Written("Import", "foo", <<>>)}
    \cup {Written("Interface", id, members) :
            id \in {"foo", "array"},
            members \in {<<>>} \cup {<<Written("Method", n, <<>>)>> : n \in {"foo", "array"}}}
    \cup {Written("Struct", id, members) :
            id \in {"foo", "array"},
            members \in {<<>>} \cup {<<Written("StructField", n, <<>>)>> : n \in {"foo", "array"}}}

SemanticSources == SeqsUpTo(SemanticStatements, MaxSemanticStmts)

SemanticInit ==
    /\ ServerInit
    /\ \E written \in SemanticSources :
          /\ mojom = parse(written)
          /\ file_text = TextOf(written)
    /\ stack = <<>>
    /\ item = NotCalled
    /\ events = <<>>
    /\ semantics = NotAnalysed
    /\ NoCall

CheckSemantics ==
    /\ semantics = NotAnalysed
    /\ semantics' = check_semantics(file_text, mojom)
    /\ UNCHANGED <<mojom, file_text, stack, item, events, input, output>>
    /\ UNCHANGED vars

SemanticSpec == SemanticInit /\ [][CheckSemantics]_pureVars

(* ---------------------------------------------------------------------- *)
(* The lookup of a definition in a document that has a tree                *)
(* ---------------------------------------------------------------------- *)

DefinitionMembers ==
    {<<>>,
     <<Written("Enum", "E", <<>>)>>,
     <<Written("StructField", "E", <<>>)>>,
     <<Written("Const", "S", <<>>)>>,
     <<Written("StructField", "E", <<>>), Written("Enum", "E", <<>>)>>}

DefinitionStatements ==
    {Written("Module", "x", <<>>), Written("Union", "S", <<>>), Written("Enum", "S", <<>>),
     Written("Enum", "E", <<>>), Written("Const", "E", <<>>)}
    \cup {Written("Import", path, <<>>) : path \in ImportPaths}
    \cup {Written("Struct", "S", members) :
            members \in {ms \in DefinitionMembers : Len(ms) <= MaxMembers}}
    \cup {Written("Struct", "E", <<Written("Enum", "E", <<>>)>>)}
    \cup {Written("Interface", "S", members) :
            members \in {<<Written("Method", "E", <<>>)>>, <<Written("Enum", "E", <<>>)>>}}

DefinitionSources == SeqsUpTo(DefinitionStatements, MaxStmts)

\* The identifiers a cursor can be on.
Identifiers ==
    {<<>>, <<"S">>, <<"E">>, <<"x">>, <<"S", ".", "E">>, <<"x", ".", "S">>,
     <<"x", ".", "E">>, <<"x", ".", "S", ".", "E">>, <<"T", ".", "E">>}

FindDefinitionInput(uri, ident, imported) ==
    [given |-> TRUE, uri |-> uri, ident |-> ident, imported_files |-> imported]
Returned(loc) == [returned |-> TRUE, loc |-> loc]

DefinitionInit ==
    /\ ServerInit
    /\ \E written \in DefinitionSources, ident \in Identifiers :
          /\ mojom = parse(written)
          /\ file_text = TextOf(written)
          /\ input = FindDefinitionInput(UriA, ident,
                         check_imports_of(TextOf(written), parse(written)))
    /\ stack = <<>>
    /\ item = NotCalled
    /\ events = <<>>
    /\ semantics = NotAnalysed
    /\ output = NotReturned

FindDefinition ==
    /\ output = NotReturned
    /\ output' = Returned(find_definition_or(input.ident, input.uri, file_text, mojom,
                                             input.imported_files))
    /\ UNCHANGED <<mojom, file_text, stack, item, events, semantics, input>>
    /\ UNCHANGED vars

DefinitionSpec == DefinitionInit /\ [][FindDefinition]_pureVars

(* ---------------------------------------------------------------------- *)
(* The decoding of one JSON object                                         *)
(* ---------------------------------------------------------------------- *)

\* Every combination of the fields id, method, params, result and error.
JsonObjects ==
    {Frame("ok", id, method, PlainParams(tag), result, error) :
        id \in {NoId} \cup Ids, method \in {NoMethod, "shutdown", "exit"},
        tag \in {"absent", "null", "initialize"}, result \in BOOLEAN, error \in BOOLEAN}

Decoded(message) == [returned |-> TRUE, message |-> message]

DecodeInit ==
    /\ ServerInit
    /\ mojom = MojomFile(<<>>)
    /\ file_text = <<>>
    /\ stack = <<>>
    /\ item = NotCalled
    /\ events = <<>>
    /\ semantics = NotAnalysed
    /\ input \in JsonObjects
    /\ output = NotReturned

FromSlice ==
    /\ output = NotReturned
    /\ output' = Decoded(MessageFromSlice(input))
    /\ UNCHANGED <<mojom, file_text, stack, item, events, semantics, input>>
    /\ UNCHANGED vars

DecodeSpec == DecodeInit /\ [][FromSlice]_pureVars

(* ---------------------------------------------------------------------- *)
(* The reading of one header block                                         *)
(* ---------------------------------------------------------------------- *)

HeaderNames == {"Content-Length", "content-length", "Content-Type"}
HeaderValues == {<<"5">>, <<"7">>, <<"utf-8">>, <<"a", Separator, "b">>}
HeaderLines ==
    {<<name, Separator>> \o value : name \in HeaderNames, value \in HeaderValues}
    \cup {<<name>> : name \in HeaderNames}

RECURSIVE Lines(_)
\* The stream of the given lines, each with its line ending.
Lines(lines) ==
    IF lines = <<>> THEN <<>> ELSE Head(lines) \o <<CRLF>> \o Lines(Tail(lines))

\* A header block: its lines and whether the empty line follows them.
HeaderBlock(lines, terminated) ==
    [given |-> TRUE, lines |-> lines, terminated |-> terminated,
     stream |-> Lines(lines) \o (IF terminated THEN <<CRLF>> ELSE <<>>)]

HeaderInit ==
    /\ ServerInit
    /\ mojom = MojomFile(<<>>)
    /\ file_text = <<>>
    /\ stack = <<>>
    /\ item = NotCalled
    /\ events = <<>>
    /\ semantics = NotAnalysed
    /\ \E lines \in SeqsUpTo(HeaderLines, MaxHeaderLines), terminated \in BOOLEAN :
          input = HeaderBlock(lines, terminated)
    /\ output = NotReturned

ReadHeader ==
    /\ output = NotReturned
    /\ output' = read_header(input.stream)
    /\ UNCHANGED <<mojom, file_text, stack, item, events, semantics, input>>
    /\ UNCHANGED vars

HeaderSpec == HeaderInit /\ [][ReadHeader]_pureVars

(* ---------------------------------------------------------------------- *)
(* Frames written to a stream and read from it                             *)
(* ---------------------------------------------------------------------- *)

Payloads == {<<"null">>, <<"Content-Length", Separator, "5">>}
WireMessages ==
    {WireMessage("Request", 1, "shutdown", payload) : payload \in Payloads}
    \cup {WireMessage("Response", id, NoMethod, payload) : id \in Ids, payload \in Payloads}
    \cup {WireMessage("Notification", NoId, "exit", payload) : payload \in Payloads}

\* The messages to write, how many of them are written, and the stream.
StreamWritten(messages, written, stream) ==
    [given |-> TRUE, messages |-> messages, written |-> written, stream |-> stream]
\* The messages read and how much of the stream they took.
StreamRead(messages, consumed, failed) ==
    [returned |-> TRUE, messages |-> messages, consumed |-> consumed, failed |-> failed]

FramingInit ==
    /\ ServerInit
    /\ mojom = MojomFile(<<>>)
    /\ file_text = <<>>
    /\ stack = <<>>
    /\ item = NotCalled
    /\ events = <<>>
    /\ semantics = NotAnalysed
    /\ \E messages \in SeqsUpTo(WireMessages, MaxFrames) :
          input = StreamWritten(messages, 0, <<>>)
    /\ output = StreamRead(<<>>, 0, FALSE)

WriteMessage ==
    /\ input.written < Len(input.messages)
    /\ input' = StreamWritten(input.messages, input.written + 1,
                         write_message_to(input.stream, input.messages[input.written + 1]))
    /\ UNCHANGED <<mojom, file_text, stack, item, events, semantics, output>>
    /\ UNCHANGED vars

Unread == SubSeq(input.stream, output.consumed + 1, Len(input.stream))

ReadMessage ==
    /\ ~output.failed
    /\ Unread # <<>>
    /\ output' = IF read_message_from(Unread).ok
                 THEN StreamRead(Append(output.messages, read_message_from(Unread).message),
                            output.consumed + read_message_from(Unread).used, FALSE)
                 ELSE StreamRead(output.messages, output.consumed, TRUE)
    /\ UNCHANGED <<mojom, file_text, stack, item, events, semantics, input>>
    /\ UNCHANGED vars

FramingNext == WriteMessage \/ ReadMessage

FramingSpec == FramingInit /\ [][FramingNext]_pureVars

(* ---------------------------------------------------------------------- *)
(* The root of the workspace for one initialize request                    *)
(* ---------------------------------------------------------------------- *)

Components == {"src", "out", "chromium"}
AbsolutePaths == {AbsolutePath(parts) : parts \in SeqsUpTo(Components, MaxDepth)}
RootUris ==
    {NoUrl, Url("http", AbsolutePath(<<"chromium", "src">>))}
    \cup {Url("file", path) : path \in AbsolutePaths}
RootPaths ==
    {NoPath, SomePath(AbsolutePath(<<"chromium", "src">>)),
     SomePath(AbsolutePath(<<"chromium", "src", "out">>))}
GclientDirectories ==
    SUBSET {AbsolutePath(<<>>), AbsolutePath(<<"chromium">>), AbsolutePath(<<"src">>),
            AbsolutePath(<<"chromium", "src">>)}

RootInput(params, gclient) == [given |-> TRUE, params |-> params, gclient |-> gclient]
RootReturned(path) == [returned |-> TRUE, path |-> path]

RootInit ==
    /\ ServerInit
    /\ mojom = MojomFile(<<>>)
    /\ file_text = <<>>
    /\ stack = <<>>
    /\ item = NotCalled
    /\ events = <<>>
    /\ semantics = NotAnalysed
    /\ \E root_uri \in RootUris, root_path \in RootPaths, gclient \in GclientDirectories :
          input = RootInput(InitializeParams(root_uri, root_path), gclient)
    /\ output = NotReturned

GetRootPath ==
    /\ output = NotReturned
    /\ output' = RootReturned(root_path_of(input.params, input.gclient))
    /\ UNCHANGED <<mojom, file_text, stack, item, events, semantics, input>>
    /\ UNCHANGED vars

RootSpec == RootInit /\ [][GetRootPath]_pureVars

(* ---------------------------------------------------------------------- *)
(* Lowering a text to its tree                                             *)
(* ---------------------------------------------------------------------- *)

NameF == <<"f">>
NameGo == <<"g", "o">>
NameDotted == <<"m", ".", "x">>
TypeU8 == <<"u", "8">>
Ordinal1 == <<"@", "1">>
Literal7 == <<"7">>

WrittenParameters ==
    {WrittenParameter(TypeU8, NameF, NoText),
     WrittenParameter(TypeU8, NameGo, Ordinal1)}
WrittenResponses ==
    {WrittenResponse(FALSE, <<>>)}
    \cup {WrittenResponse(TRUE, params) :
            params \in SeqsUpTo(WrittenParameters, MaxParams)}
WrittenMethods ==
    {WrittenMethod(attribute, name, ordinal, params, response) :
        attribute \in BOOLEAN, name \in {NameF, NameGo},
        ordinal \in {NoText, Ordinal1},
        params \in SeqsUpTo(WrittenParameters, MaxParams),
        response \in WrittenResponses}

WrittenValues ==
    {WrittenEnumValue(NameF, NoText), WrittenEnumValue(NameGo, Literal7)}
WrittenEnums ==
    {WrittenEnum(TRUE, NameGo, FALSE, <<>>),
     WrittenEnum(FALSE, NameF, TRUE, <<>>)}
    \cup {WrittenEnum(FALSE, NameGo, TRUE, values) :
            values \in [1..2 -> WrittenValues]}
WrittenFields ==
    {WrittenField(TypeU8, NameF, NoText, NoText),
     WrittenField(TypeU8, NameGo, Ordinal1, Literal7)}
WrittenConsts == {WrittenConst(TypeU8, NameGo, Literal7)}
WrittenStatements ==
    {WrittenModule(FALSE, NameDotted), WrittenModule(TRUE, NameF),
     WrittenImport(<<"\"", "a", "\"">>),
     WrittenStruct(TRUE, NameGo, FALSE, <<>>),
     WrittenUnion(NameF, <<WrittenParameter(TypeU8, NameGo, Ordinal1),
                           WrittenParameter(TypeU8, NameF, NoText)>>)}
    \cup WrittenConsts
    \cup WrittenEnums
    \cup {WrittenStruct(FALSE, NameF, TRUE, <<field, member>>) :
            field \in WrittenFields, member \in WrittenConsts \cup WrittenEnums}
    \cup {WrittenInterface(TRUE, NameF, <<member>>) :
            member \in WrittenConsts \cup WrittenEnums}
    \cup {WrittenInterface(FALSE, NameGo, <<method>>) : method \in WrittenMethods}

\* Files of one statement, and a few files of two.
WrittenFiles ==
    {<<>>}
    \cup {<<statement>> : statement \in WrittenStatements}
    \cup {<<WrittenModule(FALSE, NameDotted), statement>> :
            statement \in WrittenConsts \cup WrittenEnums}

ParseInput(statements) == [given |-> TRUE, statements |-> statements]
ParseReturned(text, tree) == [returned |-> TRUE, text |-> text, mojom |-> tree]

ParseInit ==
    /\ ServerInit
    /\ mojom = MojomFile(<<>>)
    /\ file_text = <<>>
    /\ stack = <<>>
    /\ item = NotCalled
    /\ events = <<>>
    /\ semantics = NotAnalysed
    /\ \E statements \in WrittenFiles : input = ParseInput(statements)
    /\ output = NotReturned

\* parse(input): match the text, then lower the pairs.
Parse ==
    /\ output = NotReturned
    /\ LET matched == parse_input(input.statements)
       IN  output' = ParseReturned(matched.text, build_syntax_tree(matched.pairs))
    /\ UNCHANGED <<mojom, file_text, stack, item, events, semantics, input>>
    /\ UNCHANGED vars

ParseSpec == ParseInit /\ [][Parse]_pureVars

(* ---------------------------------------------------------------------- *)
(* The definitions of one imported file                                    *)
(* ---------------------------------------------------------------------- *)

ImportedSources ==
    {NotFound, SyntaxError} \cup {Parsed(written) : written \in DefinitionSources}

ParseImportedInput(path, file) == [given |-> TRUE, path |-> path, file |-> file]
ParseImportedReturned(imported, path) ==
    [returned |-> TRUE, imported |-> imported, path |-> path]

ImportInit ==
    /\ ServerInit
    /\ mojom = MojomFile(<<>>)
    /\ file_text = <<>>
    /\ stack = <<>>
    /\ item = NotCalled
    /\ events = <<>>
    /\ semantics = NotAnalysed
    /\ \E file \in ImportedSources : input = ParseImportedInput("a.mojom", file)
    /\ output = NotReturned

\* parse_imported(path); the path stack is kept to be looked at.
ParseImported ==
    /\ output = NotReturned
    /\ output' =
          ParseImportedReturned(
              parse_imported_file(input.path, input.file),
              IF input.file.found /\ input.file.parses
              THEN LET m == parse(input.file.written)
                   IN  parse_imported_loop(TextOf(input.file.written), m,
                                           Collect(m, preorder(m)), <<>>, <<>>).path
              ELSE <<>>)
    /\ UNCHANGED <<mojom, file_text, stack, item, events, semantics, input>>
    /\ UNCHANGED vars

ImportSpec == ImportInit /\ [][ParseImported]_pureVars

(* ---------------------------------------------------------------------- *)
(* The imports of one document                                             *)
(* ---------------------------------------------------------------------- *)

ImportingStatements ==
    {Written("Import", path, <<>>) : path \in ImportPaths}
    \cup {Written("Module", "x", <<>>), Written("Enum", "E", <<>>)}
ImportingSources == SeqsUpTo(ImportingStatements, MaxImportStmts)

CheckImportsInput(written) == [given |-> TRUE, written |-> written]
CheckImportsReturned(imported) == [returned |-> TRUE, imported_files |-> imported]

CheckImportsInit ==
    /\ ServerInit
    /\ \E written \in ImportingSources :
          /\ mojom = parse(written)
          /\ file_text = TextOf(written)
          /\ input = CheckImportsInput(written)
    /\ stack = <<>>
    /\ item = NotCalled
    /\ events = <<>>
    /\ semantics = NotAnalysed
    /\ output = NotReturned

\* check_imports(root_path, ast)
CheckImports ==
    /\ output = NotReturned
    /\ output' = CheckImportsReturned(check_imports_of(file_text, mojom))
    /\ UNCHANGED <<mojom, file_text, stack, item, events, semantics, input>>
    /\ UNCHANGED vars

CheckImportsSpec == CheckImportsInit /\ [][CheckImports]_pureVars

\* The reader is a thread as well: once the reply it waits for is there, it
\* takes it. Reading the next inbound message is up to the editor.
LiveSpec == FairSpec /\ WF_vars(GotoDefinitionReply)

(* ---------------------------------------------------------------------- *)
(* Properties                                                              *)
(* ---------------------------------------------------------------------- *)

Last(seq) == seq[Len(seq)]

IsRequest(f, method) == read_message(f) = "Request" /\ f.method = method
IsNotification(f, method) == read_message(f) = "Notification" /\ f.method = method
IsExit(f) == IsRequest(f, "exit") \/ IsNotification(f, "exit")

\* The reader has just read a frame in the dispatch loop (as a step).
ReadsInLoop == rpc = "loop" /\ Len(log') = Len(log) + 1

\* start() returned an error after n frames, before the dispatch loop.
RejectedAt(n) ==
    /\ Len(log) = n
    /\ rpc = "returned"
    /\ ret = "Err"
    /\ reads = 0
    /\ wpc = "not_started"
    /\ apc = "not_started"
    /\ chan = <<>>
    /\ enq = <<>>
    /\ cmds = <<>>
    /\ sent = <<>>
    /\ Len(out) = 2 * (n - 1)

\* The first frame of the stream is the reply to the initialize request.
RepliedToInitialize ==
    /\ Len(out) >= 2
    /\ out[1].part = "header" /\ out[2].part = "body"
    /\ \A i \in 1..2 :
        /\ out[i].msg.kind = "SuccessResponse"
        /\ out[i].msg.what = "InitializeResult"
        /\ out[i].msg.id = log[1].id
    /\ \A i \in 3..Len(out) : out[i].msg.what # "InitializeResult"
    /\ \A i \in 1..Len(enq) : enq[i].what # "InitializeResult"

\* C1: the first frame is accepted only if it is a Request with method
\* `initialize`, and is then answered by exactly one success response with
\* that request's id; the second frame is accepted only if it is the
\* `initialized` notification; on any other first or second frame start()
\* returns an error with no thread started and nothing further read.
C1_Handshake ==
    /\ Len(log) >= 1 =>
        /\ ~IsRequest(log[1], "initialize") => RejectedAt(1)
        /\ ~RejectedAt(1) => IsRequest(log[1], "initialize") /\ RepliedToInitialize
    /\ Len(log) >= 2 =>
        /\ ~IsNotification(log[2], "initialized") => RejectedAt(2)
        /\ ~RejectedAt(2) => IsNotification(log[2], "initialized")
    /\ (wpc # "not_started" \/ apc # "not_started" \/ reads > 0) =>
        /\ Len(log) >= 2
        /\ IsRequest(log[1], "initialize")
        /\ IsNotification(log[2], "initialized")

\* The initialize request was answered and the second frame then rejected.
C1_Witness ==
    /\ RejectedAt(2)
    /\ IsRequest(log[1], "initialize")
    /\ log[1].id = 2
    /\ read_message(log[2]) = "Request"

\* C2: a handled `exit` is the last frame read; start() has then returned
\* 0 if a `shutdown` request was handled before it and 1 otherwise.
C2_ExitCode ==
    \A i \in 3..Len(log) :
        IsExit(log[i]) =>
            /\ i = Len(log)
            /\ rpc = "returned"
            /\ ret = IF \E j \in 3..(i - 1) : IsRequest(log[j], "shutdown")
                     THEN "Ok(0)" ELSE "Ok(1)"

C2_Witness ==
    /\ Len(log) = 4
    /\ IsRequest(log[3], "shutdown")
    /\ IsNotification(log[4], "exit")
    /\ ret = "Ok(0)"

\* C3: handling a `shutdown` request, in state Initialized or ShuttingDown,
\* leaves the state ShuttingDown, enqueues exactly one success response with
\* the request's id and result null, sets no exit code and stays in the loop.
C3_Shutdown ==
    [][(ReadsInLoop /\ IsRequest(Last(log'), "shutdown")) =>
        /\ state' = "ShuttingDown"
        /\ chan' = Append(chan, OutMsg("SuccessResponse", Last(log').id, 0, "null", "", <<>>))
        /\ enq' = Append(enq, OutMsg("SuccessResponse", Last(log').id, 0, "null", "", <<>>))
        /\ exit_code' = "None"
        /\ ret' = "none"
        /\ rpc' = "loop"]_vars

\* A shutdown request was handled in state ShuttingDown.
C3_Witness ==
    /\ Len(log) = 4
    /\ IsRequest(log[3], "shutdown")
    /\ IsRequest(log[4], "shutdown")
    /\ log[3].id # log[4].id
    /\ state = "ShuttingDown"
    /\ rpc = "loop"

\* The reader's step left the dispatch loop running and touched nothing but
\* what the conjuncts of a claim name.
StaysInLoop ==
    /\ rpc' = "loop"
    /\ ret' = "none"
    /\ exit_code' = "None"
    /\ state' = state

\* Exactly one error response for the frame just read, with that code.
EnqueuesError(code) ==
    /\ Len(chan') = Len(chan) + 1
    /\ SubSeq(chan', 1, Len(chan)) = chan
    /\ Last(chan').kind = "ErrorResponse"
    /\ Last(chan').id = Last(log').id
    /\ Last(chan').code = code
    /\ enq' = Append(enq, Last(chan'))

NoCommand == cmds' = cmds /\ sent' = sent

\* C4: a definition request with undecodable params, a request with an
\* unsupported method and an initialize request after the handshake each
\* get one error response with the request's id and the code InvalidRequest,
\* InternalError ('Unimplemented request') and ServerNotInitialized; the
\* loop goes on, the state is unchanged and no command is sent.
C4_RequestErrors ==
    [][ReadsInLoop /\ read_message(Last(log')) = "Request" =>
        LET f == Last(log') IN
        /\ (f.method = "textDocument/definition" /\ f.params.tag # "position") =>
            StaysInLoop /\ NoCommand /\ EnqueuesError(-32600)
        /\ f.method \notin {"initialize", "shutdown", "textDocument/definition", "exit"} =>
            /\ StaysInLoop /\ NoCommand /\ EnqueuesError(-32603)
            /\ Last(chan').what = "Unimplemented request"
        /\ f.method = "initialize" =>
            StaysInLoop /\ NoCommand /\ EnqueuesError(-32002)]_vars

\* A definition request with undecodable params was answered in state
\* ShuttingDown.
C4_Witness ==
    /\ Len(log) = 4
    /\ IsRequest(log[3], "shutdown")
    /\ IsRequest(log[4], "textDocument/definition")
    /\ log[4].id = 2
    /\ state = "ShuttingDown"
    /\ rpc = "loop"
    /\ Len(enq) = 2
    /\ enq[2].code = -32600

\* C5: `exit` received as a Request sets the exit code by the rule of the
\* notification (0 in ShuttingDown, 1 otherwise), ends the loop and
\* enqueues no response.
C5_ExitAsRequest ==
    [][ReadsInLoop /\ IsRequest(Last(log'), "exit") =>
        /\ exit_code' = IF state = "ShuttingDown" THEN "Some(0)" ELSE "Some(1)"
        /\ ret' = IF state = "ShuttingDown" THEN "Ok(0)" ELSE "Ok(1)"
        /\ rpc' = "returned"
        /\ state' = state
        /\ chan' = chan /\ enq' = enq
        /\ NoCommand]_vars

C5_Witness ==
    /\ Len(log) = 4
    /\ IsRequest(log[3], "shutdown")
    /\ IsRequest(log[4], "exit")
    /\ ret = "Ok(0)"
    /\ Len(enq) = 1

\* C6: the three accepted notifications and every notification with an
\* unrecognised method leave state and exit code unchanged, send no command,
\* enqueue nothing, and the loop continues.
C6_IgnoredNotifications ==
    [][(/\ ReadsInLoop
        /\ read_message(Last(log')) = "Notification"
        /\ Last(log').method \notin {"exit", "textDocument/didOpen", "textDocument/didChange"}) =>
        /\ StaysInLoop
        /\ NoCommand
        /\ chan' = chan /\ enq' = enq
        /\ UNCHANGED <<writerVars, analysisVars, reply, pending>>]_vars

C6_Witness ==
    /\ Len(log) = 4
    /\ IsNotification(log[3], "textDocument/didSave")
    /\ IsNotification(log[4], "initialized")
    /\ rpc = "loop"

\* C7: a transport failure on a frame of the dispatch loop makes start()
\* return an error at once, with nothing enqueued and no command sent; an
\* exit code 0 or 1 is returned only when the last frame read was an `exit`.
C7_TransportFailure ==
    [][/\ (ReadsInLoop /\ (Last(log').io # "ok" \/ read_message(Last(log')) = "Err")) =>
            /\ rpc' = "returned"
            /\ ret' = "Err"
            /\ exit_code' = "None"
            /\ chan' = chan /\ enq' = enq
            /\ NoCommand
       /\ ret' \in {"Ok(0)", "Ok(1)"} => IsExit(Last(log'))]_vars

\* The input ended in state ShuttingDown.
C7_Witness ==
    /\ Len(log) = 4
    /\ IsRequest(log[3], "shutdown")
    /\ log[4].io = "eof_in_header"
    /\ ret = "Err"
    /\ state = "ShuttingDown"

\* C8 as stated: every chunk of the output stream is written by the writer.
C8_SoleProducer ==
    \A i \in 1..Len(out) : out[i].by = "writer"

\* C8: every chunk of the output stream after the reply to `initialize` is
\* written by the writer task; that reply, the first frame of the stream, is
\* written by the reader before the writer task is started.
C8_SoleProducerAfterHandshake ==
    /\ \A i \in 1..Len(out) :
        IF i <= 2
        THEN out[i].by = "reader" /\ out[i].msg.what = "InitializeResult"
        ELSE out[i].by = "writer"
    /\ wpc = "not_started" => Len(out) <= 2

C8_Witness ==
    /\ Len(out) = 6
    /\ out[4].msg.kind = "Notification"
    /\ out[6].msg.kind = "SuccessResponse"
    /\ rpc = "returned"

\* C9: the output stream is a concatenation of complete frames (the header
\* of a message followed by the body of the same message, from the same
\* task) followed by at most one header.
C9_NoInterleaving ==
    \A i \in 1..Len(out) :
        IF i % 2 = 1
        THEN out[i].part = "header"
        ELSE /\ out[i].part = "body"
             /\ out[i].msg = out[i - 1].msg
             /\ out[i].by = out[i - 1].by

\* A frame is half written while messages of both producers are queued.
C9_Witness ==
    /\ wpc = "body"
    /\ Len(out) % 2 = 1
    /\ Len(chan) = 2
    /\ chan[1].kind # chan[2].kind
    /\ \E i \in 1..2 : chan[i].kind = "Notification"

\* The messages of the chunks of one kind that the writer has written.
WrittenMessages(part) ==
    LET chunks == SelectSeq(out, LAMBDA c : c.by = "writer" /\ c.part = part)
    IN  [i \in 1..Len(chunks) |-> chunks[i].msg]

\* C10: the messages written, then the one being written, then the queue
\* are exactly the messages enqueued, in the order of enqueuing.
C10_WriterOrder ==
    LET current == IF wpc = "body" THEN <<wcur>> ELSE <<>> IN
    /\ WrittenMessages("body") \o current \o chan = enq
    /\ WrittenMessages("header") = WrittenMessages("body") \o current

\* Three messages of two producers have all been written.
C10_Witness ==
    /\ Len(enq) = 3
    /\ chan = <<>>
    /\ wpc = "recv"
    /\ enq[1].kind = "Notification"
    /\ enq[2].kind = "Notification"
    /\ enq[3].kind = "SuccessResponse"
    /\ enq[1].uri # enq[2].uri

\* C11: the writer terminates only when every sender handle of its channel
\* has been dropped and it has written every message that was enqueued; and
\* once start() has returned or unwound, which drops the reader's and the
\* MessageSenderThread's handles (the analysis thread's follows), the writer
\* does terminate.
C11_WriterTermination ==
    /\ [](wpc = "terminated" =>
            /\ Senders = {}
            /\ chan = <<>>
            /\ wcur = NoMsg
            /\ WrittenMessages("body") = enq)
    /\ (wpc # "not_started" /\ rpc \in {"returned", "panicked"}) ~> (wpc = "terminated")

\* The reader returned after shutdown and exit while the response to
\* shutdown was queued; the analysis thread ended when its channel closed,
\* the writer wrote the response and then terminated.
C11_Witness ==
    /\ wpc = "terminated"
    /\ ret = "Ok(0)"
    /\ apc = "panicked"
    /\ Len(enq) = 1
    /\ WrittenMessages("body") = enq
    /\ Len(out) = 4

\* The analysis thread takes a CheckSyntax command off its channel (as a step).
ProcessesCheck ==
    /\ apc = "recv"
    /\ cmds # <<>>
    /\ Head(cmds).kind = "CheckSyntax"
    /\ cmds' = Tail(cmds)

IsPublishDiagnostics(m, uri) ==
    /\ m.kind = "Notification"
    /\ m.what = "textDocument/publishDiagnostics"
    /\ m.uri = uri

\* C12: every Check the analysis thread processes enqueues exactly one
\* textDocument/publishDiagnostics notification, for the uri of the Check,
\* also when the diagnostics list is empty and also when the document has
\* imports to resolve.
C12_OnePublishPerCheck ==
    [][ProcessesCheck =>
          /\ Len(enq') = Len(enq) + 1
          /\ SubSeq(enq', 1, Len(enq)) = enq
          /\ IsPublishDiagnostics(Last(enq'), Head(cmds).uri)]_vars

\* A document with an import was checked: its imports are resolved and the
\* one notification enqueued for it carries the empty list.
C12_Witness ==
    /\ ast.some
    /\ imported_files.some
    /\ imported_files.imports # <<>>
    /\ Len(enq) = 1
    /\ IsPublishDiagnostics(enq[1], ast.uri)
    /\ enq[1].data = <<>>

\* C13: a Check whose text fails to parse leaves no tree, whatever tree there
\* was before, and publishes a list of exactly one diagnostic whose range is
\* the zero-based position of the syntax error, with start = end.
C13_FailedParse ==
    [][(ProcessesCheck /\ ~Parses(Head(cmds).text)) =>
          /\ ast' = NoAst
          /\ Len(Last(enq').data) = 1
          /\ Last(enq').data[1] = <<FirstError(Head(cmds).text) - 1,
                                    FirstError(Head(cmds).text) - 1>>]_vars

\* A document was checked and parsed, then a text with an error in its second
\* item was checked: the tree is gone and the diagnostic is at offset 1.
C13_Witness ==
    /\ Len(sent) = 2
    /\ cmds = <<>>
    /\ Parses(sent[1].text)
    /\ FirstError(sent[2].text) = 2
    /\ ~ast.some
    /\ Len(enq) = 2
    /\ enq[2].data = <<<<1, 1>>>>

\* The commands the analysis thread has taken off its channel so far.
Processed == SubSeq(sent, 1, Len(sent) - Len(cmds))

\* The analysis thread is about to take a GotoDefinition off its channel.
AtGotoDefinition ==
    /\ apc = "recv"
    /\ cmds # <<>>
    /\ Head(cmds).kind = "GotoDefinition"

\* The last Check processed failed to parse.
AfterFailedParse ==
    /\ apc = "recv"
    /\ \E i \in 1..Len(Processed) :
          /\ Processed[i].kind = "CheckSyntax"
          /\ ~Parses(Processed[i].text)
          /\ \A j \in (i + 1)..Len(Processed) : Processed[j].kind # "CheckSyntax"

\* C14: after a Check whose text fails to parse, a GotoDefinition processed
\* before the next Check with parsable text answers None, enqueues nothing
\* and leaves the analysis state (tree, imported files, thread) unchanged.
C14_NoOpAfterFailedParse ==
    [][(AtGotoDefinition /\ AfterFailedParse /\ cmds' # cmds) =>
          /\ reply' = [st |-> "ready", loc |-> NoLocation]
          /\ enq' = enq
          /\ analysisVars' = analysisVars]_vars

RECURSIVE IsSubSeq(_, _)
\* a is b with some of b's entries left out.
IsSubSeq(a, b) ==
    IF a = <<>> THEN TRUE
    ELSE IF b = <<>> THEN FALSE
    ELSE IF Head(a) = Head(b) THEN IsSubSeq(Tail(a), Tail(b))
    ELSE IsSubSeq(a, Tail(b))

\* The reader waits for input or is gone, and both channels are drained.
AllIdle ==
    /\ rpc \in {"loop", "returned", "panicked"}
    /\ cmds = <<>>
    /\ chan = <<>>
    /\ wpc = "recv"

\* The Checks the reader sent for didOpen/didChange, in the order read.
ChecksSent == SelectSeq(sent, LAMBDA c : c.kind = "CheckSyntax")

\* The diagnostics notifications on the output stream, in the order written.
DiagnosticsWritten ==
    SelectSeq(WrittenMessages("body"),
              LAMBDA m : m.what = "textDocument/publishDiagnostics")

\* C15: once every task is idle, the diagnostics notifications of the
\* didOpen/didChange notifications are on the output stream in the order in
\* which those were read, and the last diagnostics written for a uri are
\* those of the last text received for it.
C15_NeverStaleAfterFresh ==
    (AllIdle /\ apc = "recv") =>
        /\ IsSubSeq([i \in 1..Len(ChecksSent) |->
                        publish_diagnostics(ChecksSent[i].uri,
                                            check_syntax_diagnostics(ChecksSent[i].text))],
                    DiagnosticsWritten)
        /\ \A u \in {UriA, UriB} :
              LET texts == SelectSeq(ChecksSent, LAMBDA c : c.uri = u)
                  written == SelectSeq(DiagnosticsWritten, LAMBDA m : m.uri = u)
              IN  texts # <<>> =>
                    /\ written # <<>>
                    /\ Last(written).data = check_syntax_diagnostics(Last(texts).text)

\* A GotoDefinition command has been sent and its reply not yet received.
AwaitingReply ==
    \/ reply.st # "none"
    \/ \E i \in 1..Len(cmds) : cmds[i].kind = "GotoDefinition"

ResponseAt == {j \in 1..Len(enq) : enq[j].kind # "Notification"}
RequestAt ==
    {i \in 3..Len(log) : read_message(log[i]) = "Request" /\ log[i].method # "exit"}

\* The reader enqueues every response itself, one request at a time: the
\* k-th response answers the k-th answered request.
RequestOf(j) ==
    CHOOSE i \in RequestAt :
        Cardinality({h \in RequestAt : h <= i}) = Cardinality({h \in ResponseAt : h <= j})

\* The notification a didOpen/didChange frame asks for.
IsCheckFrame(f) ==
    \/ IsNotification(f, "textDocument/didOpen") /\ Decodes(f.params, "didOpen")
    \/ IsNotification(f, "textDocument/didChange") /\ Decodes(f.params, "didChange")
DiagnosticsOf(f) ==
    publish_diagnostics(f.params.uri,
        check_syntax_diagnostics(IF f.method = "textDocument/didOpen"
                                 THEN f.params.text ELSE Join(f.params.changes)))

\* The diagnostics of every didOpen/didChange read before log[i] are, in the
\* order read, among the messages enqueued before enq[j].
DiagnosticsPrecede(i, j) ==
    LET before == SelectSeq(SubSeq(log, 3, i - 1), IsCheckFrame)
    IN  IsSubSeq([n \in 1..Len(before) |-> DiagnosticsOf(before[n])],
                 SubSeq(enq, 1, j - 1))

\* C17 as stated: the output for a message read earlier is enqueued, and so
\* written, before the output for a message read later; in particular the
\* response to any request comes after the diagnostics of every
\* didOpen/didChange read before the request.
C17_EndToEndOrder ==
    \A j \in ResponseAt : DiagnosticsPrecede(RequestOf(j), j)

\* C17 amended: the responses are in the order of their requests, and the
\* response to a textDocument/definition request that the analysis thread
\* answers comes after the diagnostics of every didOpen/didChange read
\* before that request.
C17_OrderPerProducer ==
    \A j \in ResponseAt :
        /\ \E i \in RequestAt :
              Cardinality({h \in RequestAt : h <= i}) = Cardinality({h \in ResponseAt : h <= j})
        /\ enq[j].id = log[RequestOf(j)].id
        /\ (/\ log[RequestOf(j)].method = "textDocument/definition"
            /\ Decodes(log[RequestOf(j)].params, "position"))
              => DiagnosticsPrecede(RequestOf(j), j)

\* A didChange with a syntax error and then a definition request were read;
\* the diagnostics of the didChange were enqueued before the response.
C17_Witness ==
    /\ Len(log) = 4
    /\ IsCheckFrame(log[3])
    /\ log[4].method = "textDocument/definition"
    /\ Len(enq) = 3
    /\ enq[1] = DiagnosticsOf(log[3])
    /\ enq[1].data # <<>>
    /\ enq[3].kind = "SuccessResponse"

RECURSIVE Concatenation(_)
\* c1 ++ ... ++ cn, built from the last text backwards.
Concatenation(texts) ==
    IF texts = <<>> THEN <<>>
    ELSE Concatenation(SubSeq(texts, 1, Len(texts) - 1)) \o texts[Len(texts)]

\* C18: reading a didChange with the changes c1..cn sends exactly one
\* command, the Check of the notification's uri with the text
\* c1 ++ ... ++ cn (empty for n = 0); reading a didOpen sends exactly one
\* command, the Check of its uri with its text unchanged.
C18_CheckText ==
    [][(ReadsInLoop /\ IsCheckFrame(Last(log'))) =>
          LET f == Last(log')
              text == IF f.method = "textDocument/didOpen" THEN f.params.text
                      ELSE Concatenation(f.params.changes)
              check == [kind |-> "CheckSyntax", uri |-> f.params.uri,
                        text |-> text, pos |-> 0]
          IN  /\ sent' = Append(sent, check)
              /\ cmds' = Append(cmds, check)]_vars

\* A didChange with two changes was read and its Check carries both texts.
C18_Witness ==
    /\ Len(log) >= 3
    /\ log[3].method = "textDocument/didChange"
    /\ Len(log[3].params.changes) = 2
    /\ Len(sent) >= 1
    /\ sent[1].text = log[3].params.changes[1] \o log[3].params.changes[2]
    /\ Len(sent[1].text) = 2

\* The positions of the module statements of the file, and the n-th of them.
ModuleAt == {i \in 1..Len(mojom.stmts) : mojom.stmts[i].kind = "Module"}
NthOf(S, n) == CHOOSE i \in S : Cardinality({h \in S : h <= i}) = n

\* The result has the first module statement, if there is one, and its
\* first diagnostics are those of module statements 2..k, in source order.
SingleModuleRule ==
    LET k == Cardinality(ModuleAt) IN
    /\ semantics.module.some = (k >= 1)
    /\ k >= 1 => semantics.module.name = mojom.stmts[NthOf(ModuleAt, 1)].name
    /\ Len(semantics.diagnostics) >= (IF k = 0 THEN 0 ELSE k - 1)
    /\ \A i \in 1..(k - 1) :
          semantics.diagnostics[i].range = mojom.stmts[NthOf(ModuleAt, i + 1)].name

\* The tokens of the text that are the name of an interface, a struct, a
\* module, a method or a struct field and spell a keyword.
KeywordNameAt ==
    {p \in 1..Len(file_text) :
        /\ file_text[p] = "array"
        /\ \E i \in 1..Len(mojom.stmts) :
              \/ p = NameAt(i, 0) /\ mojom.stmts[i].kind # "Import"
              \/ \E j \in 1..Len(mojom.stmts[i].members) : p = NameAt(i, j)}

\* C19 as stated: with k module statements the result has no module for
\* k = 0 and the first module statement otherwise, and its diagnostics are
\* exactly k - 1 for k >= 2, the i-th at the name of module statement i + 1,
\* and none otherwise.
C19_SingleModuleOnly ==
    semantics.returned =>
        /\ SingleModuleRule
        /\ Len(semantics.diagnostics) =
              (IF Cardinality(ModuleAt) = 0 THEN 0 ELSE Cardinality(ModuleAt) - 1)

\* C19 amended: the diagnostics of the module statements 2..k come first;
\* the only other diagnostics are those of the keyword check: one at each
\* name that spells a keyword, in source order.
C19_SingleModuleThenKeywords ==
    semantics.returned =>
        LET extra == IF Cardinality(ModuleAt) = 0 THEN 0 ELSE Cardinality(ModuleAt) - 1 IN
        /\ SingleModuleRule
        /\ Len(semantics.diagnostics) = extra + Cardinality(KeywordNameAt)
        /\ \A n \in 1..Cardinality(KeywordNameAt) :
              semantics.diagnostics[extra + n].range =
                  Range(NthOf(KeywordNameAt, n) - 1, NthOf(KeywordNameAt, n))

\* A file of three module statements, the second named by a keyword, was
\* analysed: two diagnostics for the extra modules, then one for the name.
C19_Witness ==
    /\ Cardinality(ModuleAt) = 3
    /\ semantics.returned
    /\ semantics.module.some
    /\ semantics.module.name = Range(0, 1)
    /\ Len(semantics.diagnostics) = 3
    /\ semantics.diagnostics[1].range = mojom.stmts[2].name
    /\ semantics.diagnostics[2].range = mojom.stmts[3].name
    /\ semantics.diagnostics[3].range = mojom.stmts[2].name

\* The events of statement i of the file, in source order: one event for a
\* leaf; for an interface or a struct its Enter, one event for each member
\* and its Leave.
EventsOfStatement(i) ==
    LET stmt == mojom.stmts[i] IN
    IF stmt.kind \in {"Interface", "Struct"}
    THEN <<Traversal(IF stmt.kind = "Interface" THEN "EnterInterface" ELSE "EnterStruct", <<i>>)>>
         \o [j \in 1..Len(stmt.members) |-> Traversal(stmt.members[j].kind, <<i, j>>)]
         \o <<Traversal(IF stmt.kind = "Interface" THEN "LeaveInterface" ELSE "LeaveStruct", <<i>>)>>
    ELSE <<Traversal(stmt.kind, <<i>>)>>

EventsOfFile ==
    <<Traversal("EnterMojomFile", <<>>)>>
    \o Concatenation([i \in 1..Len(mojom.stmts) |-> EventsOfStatement(i)])
    \o <<Traversal("LeaveMojomFile", <<>>)>>

\* C20: the iterator yields EnterMojomFile, then the events of the
\* statements in source order (one per leaf, Enter and Leave around the
\* events of the members of an interface or a struct), then LeaveMojomFile,
\* and after LeaveMojomFile it yields nothing more.
C20_Preorder ==
    /\ Len(events) <= Len(EventsOfFile)
    /\ events = SubSeq(EventsOfFile, 1, Len(events))
    /\ item.event \in {"LeaveMojomFile", "None"} =>
          /\ events = EventsOfFile
          /\ next_item(mojom, stack) = NoItem
    /\ item.event \notin {"LeaveMojomFile", "None"} => next_item(mojom, stack) # NoItem

\* A file of a struct with a field and an interface with a method has been
\* traversed to the end: eight events, then None.
C20_Witness ==
    /\ item = NoItem
    /\ Len(mojom.stmts) = 2
    /\ mojom.stmts[1].kind = "Struct"
    /\ mojom.stmts[2].kind = "Interface"
    /\ Len(mojom.stmts[1].members) = 1
    /\ Len(mojom.stmts[2].members) = 1
    /\ Len(events) = 8
    /\ events[2].event = "EnterStruct"
    /\ events[3] = Traversal("StructField", <<1, 1>>)
    /\ events[4].event = "LeaveStruct"
    /\ events[6] = Traversal("Method", <<2, 1>>)
    /\ events[7].event = "LeaveInterface"

(* ---------------------------------------------------------------------- *)
(* Go-to-definition                                                        *)
(* ---------------------------------------------------------------------- *)

\* The declarations the lookup names: the statements and the members that
\* are an interface, a struct, a union, an enum or a const.
NamedStatements == {"Interface", "Struct", "Union", "Enum", "Const"}
NamedMembers == {"Const", "Enum"}
Places(m) ==
    {<<i>> : i \in 1..Len(m.stmts)}
    \cup UNION {{<<i, j>> : j \in 1..Len(m.stmts[i].members)} : i \in 1..Len(m.stmts)}
IsNamed(m, at) ==
    IF Len(at) = 1 THEN m.stmts[at[1]].kind \in NamedStatements
    ELSE DeclarationAt(m, at).kind \in NamedMembers

\* The names of the enclosing declaration and of the declaration itself,
\* with a dot between them.
DottedPath(text, m, at) ==
    IF Len(at) = 1 THEN partial_text(text, m.stmts[at[1]].name)
    ELSE partial_text(text, m.stmts[at[1]].name) \o <<".">>
         \o partial_text(text, DeclarationAt(m, at).name)

QualifiedNames(text, m) ==
    {DottedPath(text, m, at) : at \in {p \in Places(m) : IsNamed(m, p)}}

\* The names an import answers to: each definition's qualified identifier,
\* bare and, if the import declared a module, behind the module's name.
NamesOfImport(imported) ==
    {imported.definitions[j].ident : j \in 1..Len(imported.definitions)}
    \cup (IF imported.module_name.some
          THEN {module_name_text(imported) \o <<".">> \o imported.definitions[j].ident :
                   j \in 1..Len(imported.definitions)}
          ELSE {})
ImportedNames(imported) ==
    UNION {NamesOfImport(imported.parsed_imports[k]) :
              k \in {n \in 1..Len(imported.parsed_imports) : imported.parsed_imports[n].ok}}

LocalHit == output.loc.some /\ output.loc.uri = input.uri

\* Preorder: a statement comes before its members and before every later
\* statement, a member before the later members.
Before(a, b) ==
    \/ a[1] < b[1]
    \/ a[1] = b[1] /\ Len(a) < Len(b)
    \/ a[1] = b[1] /\ Len(a) = 2 /\ Len(b) = 2 /\ a[2] < b[2]
Matches(text, m, ident) ==
    {at \in Places(m) : IsNamed(m, at) /\ DottedPath(text, m, at) = ident}
FirstMatch(text, m, ident) ==
    CHOOSE at \in Matches(text, m, ident) :
        \A other \in Matches(text, m, ident) : other = at \/ Before(at, other)

\* C28: the local lookup returns the Location of the first declaration, in
\* preorder, whose dotted path (the name of the enclosing interface or
\* struct, then its own name) equals the identifier: a nested declaration
\* matches only as S.name, a top-level declaration that follows S matches by
\* its bare name. The lookup over the preorder iterator and the lookup
\* through the visitor return the same.
C28_FirstDottedPath ==
    output.returned =>
        /\ find_definition_preorder(input.ident, input.uri, file_text, mojom)
              = find_definition(input.ident, input.uri, file_text, mojom)
        /\ Matches(file_text, mojom, input.ident) # {} =>
              LET name == DeclarationAt(mojom, FirstMatch(file_text, mojom, input.ident)).name
              IN  output.loc = Location(input.uri, name.start, name.end)

\* `struct S { enum E }; enum E` and the identifier E: the answer is the
\* enum that follows the struct, not the one inside it.
C28_Witness ==
    /\ output.returned
    /\ input.ident = <<"E">>
    /\ Len(mojom.stmts) = 2
    /\ mojom.stmts[1].kind = "Struct"
    /\ Len(mojom.stmts[1].members) = 1
    /\ mojom.stmts[1].members[1].kind = "Enum"
    /\ partial_text(file_text, mojom.stmts[1].members[1].name) = <<"E">>
    /\ mojom.stmts[2].kind = "Enum"
    /\ output.loc = Location(input.uri, mojom.stmts[2].name.start, mojom.stmts[2].name.end)

\* The dotted paths of the methods and the struct fields.
MemberNames(text, m) ==
    {DottedPath(text, m, at) :
        at \in {p \in Places(m) : Len(p) = 2
                                  /\ DeclarationAt(m, p).kind \in {"Method", "StructField"}}}

\* C29 as stated: every leaf and every Enter event is a candidate, so the
\* identifier is found whenever it is the qualified name of a method or a
\* struct field, as for an interface, struct, union, enum or const.
C29_EveryLeafAndEnter ==
    output.returned =>
        (input.ident \in QualifiedNames(file_text, mojom) \cup MemberNames(file_text, mojom)
            => output.loc.some)

\* C29: the local lookup matches the identifier against the qualified name
\* of every interface, struct, union, enum and const, and against no other
\* event of the preorder: a method, a struct field, a module or an import is
\* never the answer.
C29_DeclarationsOnly ==
    output.returned =>
        (LocalHit <=> input.ident \in QualifiedNames(file_text, mojom))

\* The identifier is the qualified name of a method of the document, and
\* the lookup has answered None.
C29_Witness ==
    /\ output.returned
    /\ ~output.loc.some
    /\ input.ident \in MemberNames(file_text, mojom)
    /\ \E i \in 1..Len(mojom.stmts) :
          /\ mojom.stmts[i].kind = "Interface"
          /\ mojom.stmts[i].members[1].kind = "Method"

\* The import statements of the document, in order.
ImportStatements ==
    SelectSeq(mojom.stmts, LAMBDA stmt : stmt.kind = "Import")
ImportsWith(imported, ident) ==
    {k \in 1..Len(imported.parsed_imports) :
        imported.parsed_imports[k].ok /\ ident \in NamesOfImport(imported.parsed_imports[k])}
DefinitionsWith(imp, ident) ==
    {j \in 1..Len(imp.definitions) :
        \/ imp.definitions[j].ident = ident
        \/ imp.module_name.some
           /\ module_name_text(imp) \o <<".">> \o imp.definitions[j].ident = ident}
Least(S) == CHOOSE n \in S : \A o \in S : n <= o

\* C30: a definition of the current document takes precedence over one of
\* an import; otherwise the imports are scanned in the order of the import
\* statements, failed imports are skipped, each definition is matched by its
\* qualified identifier and, if the import declared a module, by
\* module.qualified_ident, and the answer is the Location of the first hit,
\* with the uri of the imported file.
C30_LocalThenImportsInOrder ==
    output.returned =>
        LET cache == input.imported_files.parsed_imports
            hits == ImportsWith(input.imported_files, input.ident)
        IN  /\ Len(cache) = Len(ImportStatements)
            /\ \A k \in 1..Len(cache) :
                  cache[k].ok => <<cache[k].uri>> = partial_text(file_text, ImportStatements[k].name)
            /\ IF input.ident \in QualifiedNames(file_text, mojom) THEN LocalHit
               ELSE IF hits = {} THEN ~output.loc.some
               ELSE LET imp == cache[Least(hits)]
                        def == imp.definitions[Least(DefinitionsWith(imp, input.ident))]
                    IN  output.loc = Location(imp.uri, def.range.start, def.range.end)

\* Two imports both know the identifier and the document does not: the
\* answer is in the file of the first import statement.
C30_Witness ==
    /\ output.returned
    /\ input.ident \notin QualifiedNames(file_text, mojom)
    /\ Cardinality(ImportsWith(input.imported_files, input.ident)) = 2
    /\ output.loc.some
    /\ output.loc.uri = input.imported_files.parsed_imports[1].uri
    /\ output.loc.uri = "b.mojom"

(* ---------------------------------------------------------------------- *)
(* The envelope and the framing                                            *)
(* ---------------------------------------------------------------------- *)

\* C22: a JSON object is classified by the fields it has: id and method give
\* a Request, also without params; id with result or error and no method
\* gives a Response; method without id gives a Notification, also without
\* params.
C22_ClassifiedByPresence ==
    output.returned =>
        /\ (input.id # NoId /\ input.method # NoMethod) => output.message = "Request"
        /\ (input.id # NoId /\ input.method = NoMethod /\ (input.result \/ input.error))
              => output.message = "Response"
        /\ (input.id = NoId /\ input.method # NoMethod) => output.message = "Notification"

\* A line of the form `name: value`, split at its first separator.
HeaderName(line) == <<line[1]>>
HeaderValue(line) == SubSeq(line, 3, Len(line))
IsContentLength(line) ==
    HeaderName(line) \in {<<"Content-Length">>, <<"content-length">>}
NameAndValue(line) == Len(line) >= 3 /\ line[2] = Separator
ContentLengthLines ==
    {i \in 1..Len(input.lines) : IsContentLength(input.lines[i])}

\* Every line is `name: value`, and the value of a Content-Length is a number.
WellFormedBlock ==
    \A i \in 1..Len(input.lines) :
        /\ NameAndValue(input.lines[i])
        /\ IsContentLength(input.lines[i]) => parses_usize(HeaderValue(input.lines[i]))

\* C23: read_header reads the lines up to the empty line, splits each at its
\* first `: ` only, so that a value containing `: ` is accepted, matches
\* Content-Length in any case, ignores the other headers and returns the
\* declared length; without a Content-Length, or when the input ends before
\* the empty line, it returns an error.
C23_ReadHeader ==
    (output.returned /\ WellFormedBlock) =>
        IF input.terminated /\ ContentLengthLines # {}
        THEN output = HeaderOk(NumberOf(
                 HeaderValue(input.lines[CHOOSE i \in ContentLengthLines :
                                            \A j \in ContentLengthLines : j <= i])[1]))
        ELSE ~output.ok

\* The bytes of one frame: the header that declares the length of the body,
\* the empty line, the body.
FrameOf(message) ==
    <<"Content-Length", Separator, Display(Len(to_string(message))), CRLF, CRLF>>
    \o to_string(message)
RECURSIVE FramesOf(_)
FramesOf(messages) ==
    IF messages = <<>> THEN <<>> ELSE FrameOf(Head(messages)) \o FramesOf(Tail(messages))

\* C24: every written frame is `Content-Length: N`, the empty line and the N
\* bytes of the body; every read takes exactly one header block and N bytes,
\* so the messages read are the messages written, in order, the bytes
\* consumed are exactly their frames, and once all frames are read nothing
\* is left.
C24_FramingRoundTrip ==
    /\ input.stream = FramesOf(SubSeq(input.messages, 1, input.written))
    /\ ~output.failed
    /\ Len(output.messages) <= input.written
    /\ output.messages = SubSeq(input.messages, 1, Len(output.messages))
    /\ output.consumed = Len(FramesOf(output.messages))
    /\ Len(output.messages) = input.written => output.consumed = Len(input.stream)

\* Two different messages were written and both were read back, the second
\* after a body that itself contains the text of a header.
C24_Witness ==
    /\ input.written = 2
    /\ Len(output.messages) = 2
    /\ output.messages[1] # output.messages[2]
    /\ output.messages[1].payload = <<"Content-Length", Separator, "5">>
    /\ output.messages[2].kind = "Request"
    /\ output.consumed = Len(input.stream)

(* ---------------------------------------------------------------------- *)
(* The root of the workspace                                               *)
(* ---------------------------------------------------------------------- *)

\* The path the client names: that of rootUri when it is a file uri,
\* otherwise rootPath.
NamedRoot ==
    IF input.params.root_uri.some /\ input.params.root_uri.scheme = "file"
    THEN SomePath(input.params.root_uri.path)
    ELSE input.params.root_path

\* A directory `src` whose parent holds `.gclient`.
IsChromiumSrc(path) ==
    /\ path.parts # <<>>
    /\ path.parts[Len(path.parts)] = "src"
    /\ AbsolutePath(SubSeq(path.parts, 1, Len(path.parts) - 1)) \in input.gclient
Upwards(path) == {AbsolutePath(SubSeq(path.parts, 1, k)) : k \in 0..Len(path.parts)}
Nearest(paths) == CHOOSE p \in paths : \A q \in paths : Len(q.parts) <= Len(p.parts)

\* C25: the root is computed from rootUri (file scheme) or, when that is
\* absent or unusable, from rootPath: it is the nearest of the path and its
\* ancestors that is named `src` and whose parent holds `.gclient`, the path
\* itself when there is none, and the empty path when the client names no
\* usable path.
C25_WorkspaceRoot ==
    output.returned =>
        IF ~NamedRoot.some THEN output.path = EmptyPath
        ELSE LET found == {p \in Upwards(NamedRoot.path) : IsChromiumSrc(p)}
             IN  IF found = {} THEN output.path = NamedRoot.path
                 ELSE output.path = Nearest(found)

(* ---------------------------------------------------------------------- *)
(* C27, C26: the tree a text is lowered to                                 *)
(* ---------------------------------------------------------------------- *)

\* The methods written in the file, by statement and member, next to the
\* methods of the tree.
WrittenMethodAt ==
    UNION {{<<i, j>> : j \in {k \in 1..Len(input.statements[i].members) :
                                input.statements[i].members[k].kind = "Method"}} :
           i \in {k \in 1..Len(input.statements) :
                    input.statements[k].kind = "Interface"}}
TextsOf(params) == [k \in 1..Len(params) |-> partial_text(output.text, params[k].name)]
NamesOf(params) == [k \in 1..Len(params) |-> params[k].name]

\* C27: a method is lowered with response = None exactly when no `=>` was
\* written, otherwise with Some response holding exactly the parameters
\* written after `=>` (none for `=> ()`), and its own params are exactly the
\* parameters written before `=>`.
C27_MethodResponse ==
    output.returned =>
        \A at \in WrittenMethodAt :
            LET written == input.statements[at[1]].members[at[2]]
                method == output.mojom.stmts[at[1]].members[at[2]]
            IN  /\ method.kind = "Method"
                /\ method.response = None <=> ~written.response.arrow
                /\ written.response.arrow =>
                      /\ method.response.some
                      /\ TextsOf(method.response.value.params)
                            = NamesOf(written.response.params)
                /\ TextsOf(method.params) = NamesOf(written.params)

\* C27 witness: `go(u8 f) => ();` was lowered: one param, Some response with
\* no params.
C27_Witness ==
    /\ output.returned
    /\ input.statements =
          <<WrittenInterface(FALSE, NameGo,
              <<WrittenMethod(FALSE, NameGo, NoText,
                              <<WrittenParameter(TypeU8, NameF, NoText)>>,
                              WrittenResponse(TRUE, <<>>))>>)>>
    /\ Len(output.mojom.stmts[1].members[1].params) = 1
    /\ output.mojom.stmts[1].members[1].response = Some(Response(<<>>))

\* The named declarations in source order: what was written, with the
\* identifier, and what the tree holds, with the name range.
Named(kind, name) == [kind |-> kind, name |-> name]
RECURSIVE Flat(_)
Flat(seqs) == IF seqs = <<>> THEN <<>> ELSE Head(seqs) \o Flat(Tail(seqs))
NamedParameters(params) ==
    [k \in 1..Len(params) |-> Named("Parameter", params[k].name)]
NamedValues(values) ==
    [k \in 1..Len(values) |-> Named("EnumValue", values[k].name)]
WrittenNamesOfMember(written) ==
    <<Named(written.kind, written.name)>>
    \o CASE written.kind = "Enum" -> NamedValues(written.values)
         [] written.kind = "Method" ->
                NamedParameters(written.params)
                \o NamedParameters(written.response.params)
         [] OTHER -> <<>>
WrittenNamesOf(written) ==
    CASE written.kind = "Import" -> <<>>
      [] written.kind \in {"Interface", "Struct"} ->
            <<Named(written.kind, written.name)>>
            \o Flat([j \in 1..Len(written.members) |->
                        WrittenNamesOfMember(written.members[j])])
      [] OTHER -> WrittenNamesOfMember(written)
LoweredNamesOfMember(node) ==
    <<Named(node.kind, node.name)>>
    \o CASE node.kind = "Enum" -> NamedValues(node.values)
         [] node.kind = "Method" ->
                NamedParameters(node.params)
                \o (IF node.response.some
                    THEN NamedParameters(node.response.value.params) ELSE <<>>)
         [] OTHER -> <<>>
LoweredNamesOf(node) ==
    CASE node.kind = "Import" -> <<>>
      [] node.kind \in {"Interface", "Struct"} ->
            <<Named(node.kind, node.name)>>
            \o Flat([j \in 1..Len(node.members) |->
                        LoweredNamesOfMember(node.members[j])])
      [] OTHER -> LoweredNamesOfMember(node)
WrittenNames ==
    Flat([i \in 1..Len(input.statements) |-> WrittenNamesOf(input.statements[i])])
LoweredNames ==
    Flat([i \in 1..Len(output.mojom.stmts) |-> LoweredNamesOf(output.mojom.stmts[i])])

DefinitionKinds == {"Interface", "Struct", "Union", "Enum", "Const"}
\* What statement i of the written file contributes: its own name, then
\* `Parent.name` for each enum or const inside it.
EntriesOfStatement(written, i) ==
    IF written[i].kind \notin DefinitionKinds THEN <<>>
    ELSE <<ImportDefinition(<<written[i].ident>>, NameRange(i, 0))>>
         \o Flat([j \in 1..Len(written[i].members) |->
                    IF written[i].members[j].kind \in {"Enum", "Const"}
                    THEN <<ImportDefinition(
                              <<written[i].ident, ".", written[i].members[j].ident>>,
                              NameRange(i, j))>>
                    ELSE <<>>])
EntriesOf(written) == Flat([i \in 1..Len(written) |-> EntriesOfStatement(written, i)])

\* C31: for every import that parses, definitions[] is exactly one entry per
\* interface, struct, union, enum and const in preorder, file-scope names
\* bare and nested enums/consts as `Parent.name`, nothing for methods, struct
\* fields, module and import statements, and the path stack ends empty.
C31_ImportDefinitions ==
    (output.returned /\ input.file.found /\ input.file.parses) =>
        /\ output.imported.ok
        /\ output.imported.definitions = EntriesOf(input.file.written)
        /\ output.path = <<>>

\* C31 witness: `struct S {enum E}; enum E` was imported: S, S.E, E.
C31_Witness ==
    /\ output.returned
    /\ input.file = Parsed(<<Written("Struct", "S", <<Written("Enum", "E", <<>>)>>),
                             Written("Enum", "E", <<>>)>>)
    /\ Len(output.imported.definitions) = 3
    /\ output.imported.definitions[2].ident = <<"S", ".", "E">>
    /\ output.imported.definitions[3].ident = <<"E">>

(* ---------------------------------------------------------------------- *)
(* C32: the imported-file cache of one document                            *)
(* ---------------------------------------------------------------------- *)

\* The positions of the import statements of the document, in order.
RECURSIVE ImportPositions(_, _)
ImportPositions(written, i) ==
    IF i > Len(written) THEN <<>>
    ELSE (IF written[i].kind = "Import" THEN <<i>> ELSE <<>>)
         \o ImportPositions(written, i + 1)

HandlesGotoDefinition == AtGotoDefinition /\ cmds' # cmds

\* C33: a GotoDefinition for a uri other than the current document's whose
\* file is read is handled in one step that runs the full Check of the
\* file's text (the tree and the imported files become those of that Check
\* and exactly one publishDiagnostics for the uri is enqueued) and computes
\* the reply from the new tree; without that Check no reply is made. A
\* GotoDefinition for the current document's uri leaves the tree and the
\* imported files unchanged and enqueues nothing.
C33_OpenChecksFirst ==
    [][HandlesGotoDefinition =>
          LET uri == Head(cmds).uri
              pos == Head(cmds).pos
          IN  /\ (~is_same_uri(ast, uri) /\ Readable(uri)) =>
                    /\ ast' = check_syntax_ast(uri, DiskText(uri))
                    /\ imported_files' = check_imported_files(ast', imported_files)
                    /\ Len(enq') = Len(enq) + 1
                    /\ SubSeq(enq', 1, Len(enq)) = enq
                    /\ IsPublishDiagnostics(Last(enq'), uri)
                    /\ reply'.st = "ready" =>
                          reply'.loc = IF ast'.some
                                       THEN find_definition_reply(ast', pos)
                                       ELSE NoLocation
              /\ (~is_same_uri(ast, uri) /\ ~Readable(uri)) => reply'.st # "ready"
              /\ is_same_uri(ast, uri) =>
                    /\ ast' = ast
                    /\ imported_files' = imported_files
                    /\ enq' = enq]_vars

\* file:///b.mojom was opened, then a definition in file:///a.mojom was asked
\* for: the current document is now a.mojom, read from disk, and the second
\* notification is the one of that Check.
C33_Witness ==
    /\ Len(sent) = 2
    /\ sent[1].kind = "CheckSyntax"
    /\ sent[1].uri = UriB
    /\ Parses(sent[1].text)
    /\ sent[2].kind = "GotoDefinition"
    /\ sent[2].uri = UriA
    /\ cmds = <<>>
    /\ apc = "recv"
    /\ ast = Ast(UriA, DiskText(UriA))
    /\ Len(enq) >= 2
    /\ IsPublishDiagnostics(enq[1], UriB)
    /\ IsPublishDiagnostics(enq[2], UriA)

(* ---------------------------------------------------------------------- *)
(* C34: the editor's text of a document                                    *)
(* ---------------------------------------------------------------------- *)

\* The Checks processed so far for a uri (those the reader sent).
ChecksProcessedFor(uri) ==
    SelectSeq(Processed, LAMBDA c : c.kind = "CheckSyntax" /\ c.uri = uri)

\* What a GotoDefinition at pos answers against the text t of document uri.
AnswerAgainst(uri, t, pos) ==
    IF Parses(t) /\ OffsetInText(t, pos)
    THEN find_definition_reply(Ast(uri, t), pos)
    ELSE NoLocation

\* C34: a GotoDefinition for uri U that is answered after a Check(U, t), with
\* no later Check for U, is answered against t, whatever was checked or asked
\* for other uris in between.
C34_EditorTextKept ==
    [][(HandlesGotoDefinition /\ ChecksProcessedFor(Head(cmds).uri) # <<>>
          /\ reply'.st = "ready") =>
          reply'.loc = AnswerAgainst(Head(cmds).uri,
                                     Last(ChecksProcessedFor(Head(cmds).uri)).text,
                                     Head(cmds).pos)]_vars

(* ---------------------------------------------------------------------- *)
(* C35: no GotoDefinition aborts a thread                                  *)
(* ---------------------------------------------------------------------- *)

\* C35: every GotoDefinition the analysis thread handles, whatever its uri
\* and position, is replied to with a Location or None and leaves the thread
\* running, and the reader that waits for the reply does not abort.
C35_GotoDefinitionNeverAborts ==
    [][/\ HandlesGotoDefinition => (reply'.st = "ready" /\ apc' = "recv")
       /\ rpc = "await_reply" => rpc' # "panicked"]_vars

(* ---------------------------------------------------------------------- *)
(* C36: a definition request is answered                                   *)
(* ---------------------------------------------------------------------- *)

\* The response to request id is among the messages written after the
\* first n that were enqueued.
ResponseWrittenAfter(n, id) ==
    \E i \in (n + 1)..Len(WrittenMessages("body")) :
        /\ WrittenMessages("body")[i].kind = "SuccessResponse"
        /\ WrittenMessages("body")[i].id = id

\* C36: under fair scheduling every textDocument/definition request the
\* reader waits on is eventually replied to and its response is eventually
\* written, whatever is queued ahead of it; and the analysis thread and the
\* writer can always take what is in their channels, whatever the reader does.
C36_DefinitionAnswered ==
    /\ \A n \in 0..(2 * MaxReads), id \in Ids :
          (rpc = "await_reply" /\ pending = id /\ Len(enq) = n)
              ~> ResponseWrittenAfter(n, id)
    /\ [](apc = "recv" /\ cmds # <<>> => ENABLED Analysis)
    /\ [](wpc = "recv" /\ chan # <<>> => ENABLED Writer)

(* ---------------------------------------------------------------------- *)
(* C37: one response per request                                           *)
(* ---------------------------------------------------------------------- *)

\* The requests read in the dispatch loop that are not `exit`, and the
\* responses enqueued, both in order.
LoopRequests ==
    SelectSeq(SubSeq(log, 3, Len(log)),
              LAMBDA f : read_message(f) = "Request" /\ f.method # "exit")
ResponsesEnqueued ==
    SelectSeq(enq, LAMBDA m : m.kind \in {"SuccessResponse", "ErrorResponse"})
IdsOf(seq) == [i \in 1..Len(seq) |-> seq[i].id]

\* C37: whenever the reader is done with a message (it is about to read the
\* next one, or it has ended), the responses enqueued are exactly one per
\* request read that is not `exit`, in the order read and with the request's
\* id: none for a notification, none for `exit`, none missing.
C37_OneResponsePerRequest ==
    rpc \in {"loop", "returned", "panicked"} =>
        IdsOf(ResponsesEnqueued) = IdsOf(LoopRequests)

(* ---------------------------------------------------------------------- *)
(* C38: the reader never aborts on a decodable message                     *)
(* ---------------------------------------------------------------------- *)

\* C38: reading a decodable message in the dispatch loop, whether it is
\* classified as a Request, a Notification or a Response, never aborts the
\* reader: the loop goes on, waits for a reply, or start() returns.
C38_NoAbortOnDecodable ==
    [][(rpc = "loop" /\ log' # log /\ read_message(Last(log')) # "Err") =>
          rpc' # "panicked"]_vars

(* ---------------------------------------------------------------------- *)
(* C39: the dispatch state influences only the exit code                   *)
(* ---------------------------------------------------------------------- *)

\* The commands and the immediate responses that handling a message other
\* than `exit` produces, as functions of the message alone.
CommandsOf(f) ==
    IF read_message(f) = "Notification" /\ f.method = "textDocument/didOpen"
          /\ Decodes(f.params, "didOpen")
    THEN <<CheckSyntax(f.params.uri, f.params.text)>>
    ELSE IF read_message(f) = "Notification" /\ f.method = "textDocument/didChange"
          /\ Decodes(f.params, "didChange")
    THEN <<CheckSyntax(f.params.uri, Join(f.params.changes))>>
    ELSE IF read_message(f) = "Request" /\ f.method = "textDocument/definition"
          /\ Decodes(f.params, "position")
    THEN <<GotoDefinition(f.params.uri, f.params.pos)>>
    ELSE <<>>
ResponsesOf(f) ==
    IF read_message(f) # "Request" THEN <<>>
    ELSE IF f.method = "shutdown" THEN <<NullResult(f.id)>>
    ELSE IF f.method = "initialize"
    THEN <<ErrorResponse(f.id, ServerNotInitialized, "Unexpected initialize message")>>
    ELSE IF f.method # "textDocument/definition"
    THEN <<ErrorResponse(f.id, InternalError, "Unimplemented request")>>
    ELSE IF Decodes(f.params, "position") THEN <<>>
    ELSE <<ErrorResponse(f.id, InvalidRequest, "invalid params")>>
HandlesNonExit ==
    /\ rpc = "loop"
    /\ log' # log
    /\ read_message(Last(log')) \in {"Request", "Notification"}
    /\ Last(log').method # "exit"

\* C39: the handling of a request or notification other than `exit` does not
\* depend on the dispatch state: in ShuttingDown as in Initialized it sends
\* the commands and enqueues the responses that the message alone determines
\* (a command is not sent only when the analysis thread is gone), a
\* definition is answered with the analysis thread's reply, and only
\* `shutdown` changes the state.
C39_StateOnlyForExit ==
    [][/\ HandlesNonExit =>
            /\ sent' = IF apc = "panicked" THEN sent
                                            ELSE sent \o CommandsOf(Last(log'))
            /\ enq' = enq \o ResponsesOf(Last(log'))
            /\ exit_code' = exit_code
            /\ (state' # state => Last(log').method = "shutdown")
       /\ (rpc = "await_reply" /\ rpc' = "loop") =>
            /\ enq' = Append(enq, LocationResult(pending, reply.loc))
            /\ state' = state]_vars

\* A didOpen read after a shutdown has sent its Check.
C39_Witness ==
    /\ state = "ShuttingDown"
    /\ Len(log) = 4
    /\ read_message(log[3]) = "Request" /\ log[3].method = "shutdown"
    /\ log[4].method = "textDocument/didOpen"
    /\ sent = CommandsOf(log[4])
    /\ Len(sent) = 1

(* ---------------------------------------------------------------------- *)
(* C40: the imported-file cache belongs to the current tree                *)
(* ---------------------------------------------------------------------- *)

\* The analysis thread is between two commands.
BetweenCommands == apc = "recv"
\* The step takes a Check whose text does not parse.
FailedCheck ==
    /\ BetweenCommands
    /\ cmds # <<>>
    /\ cmds' = Tail(cmds)
    /\ Head(cmds).kind = "CheckSyntax"
    /\ ~Parses(Head(cmds).text)
\* The step answers a GotoDefinition and ends without a tree.
AnswersWithoutTree ==
    /\ BetweenCommands
    /\ cmds # <<>>
    /\ cmds' = Tail(cmds)
    /\ Head(cmds).kind = "GotoDefinition"
    /\ apc' = "recv"
    /\ ~ast'.some

\* C40: between commands, a current tree comes with the cache computed from
\* its own import statements; a Check that fails to parse drops the tree and
\* leaves the cache as it was; and a GotoDefinition answered while there is
\* no tree replies "no location" whatever the cache holds, and leaves the
\* cache alone.
C40_CacheOfCurrentTree ==
    /\ []((BetweenCommands /\ ast.some) =>
             imported_files = [some |-> TRUE, imports |-> check_imports(ast.text)])
    /\ [][/\ FailedCheck => (~ast'.some /\ imported_files' = imported_files)
          /\ AnswersWithoutTree =>
                /\ reply' = [st |-> "ready", loc |-> NoLocation]
                /\ imported_files' = imported_files]_vars

\* The file opened for a GotoDefinition did not parse: the request is
\* answered without a tree while the cache holds the imports of the document
\* checked before.
C40_Witness ==
    /\ BetweenCommands
    /\ ~ast.some
    /\ imported_files.some
    /\ imported_files.imports # <<>>
    /\ Len(sent) = 2
    /\ sent[1].kind = "CheckSyntax"
    /\ imported_files.imports = check_imports(sent[1].text)
    /\ sent[2] = GotoDefinition(UriC, 0)
    /\ cmds = <<>>
    /\ reply = [st |-> "ready", loc |-> NoLocation]
====
